---- MODULE Spec2Model ----
(***************************************************************************)
(* Model of the discovery-memory subsystem: the JSON state store           *)
(* (plugins/discovery_memory/storage.py), the plugin handlers that drive   *)
(* it (plugin.py), the record types (models.py) and the parallel scan      *)
(* coordinator (helpers.py).                                               *)
(***************************************************************************)
EXTENDS Integers, Sequences, FiniteSets, TLC

\* ------------------------------------------------------------------ bounds
\* Calls of the store's mutation helpers per behaviour of SpecStore.
MaxMutations == 1
\* Environment faults per behaviour: a file corrupted or deleted from outside,
\* a failing disk operation, a process crash.
MaxFaults == 1
\* Process restarts (a new store or plugin over the same directory).
MaxRestarts == 1
\* Calls of the store's mutation helpers per behaviour of SpecHelpers.
MaxHelperCalls == 4
\* Plugin handler calls per behaviour of Spec.
MaxCalls == 3
\* Longest list of paths handed to process_repositories.
MaxPaths == 2
\* Longest list of dependency records handed to the cycle detector.
MaxEdges == 3
\* Largest repository count handed to validate_component_size.
MaxRepoCount == 31
\* Calls made by the threads of SpecThreads, all threads together.
MaxThreadCalls == 3

\* ------------------------------------------------------------------ domains
Repos == {"r1", "r2"}
RepoArgs == Repos \cup {"rx"}
Comps == {"c1", "c2"}
Keys == {"k1"}
AnalysisError == "analysis_error"
BasePath == "repos"
BasePathArgs == {"repos", "moved"}

None == [none |-> TRUE]

\* The readings of datetime.now(), in order: seconds and microseconds; the
\* first has microsecond 0.
Times == <<[sec |-> 1, us |-> 0], [sec |-> 1, us |-> 5]>>

\* dependency_type arguments, as character sequences.
TypeArgs == {<<>>, <<" ", "A">>, <<"a">>, <<"b">>}

\* ------------------------------------------------------------------ helpers
InSeq(x, s) == \E i \in 1..Len(s) : s[i] = x

Upsert(f, k, v) == [x \in (DOMAIN f) \cup {k} |-> IF x = k THEN v ELSE f[x]]

EmptyMap == [x \in {} |-> None]

\* ------------------------------------------------------------------ models.py
\* StatusText with an analysis_error entry not counted as an insight: the
\* variant the status properties must tell apart from the code.
StatusTextIgnoringError(insights, assigned) ==
    [insights |-> (insights \ {"analysis_error"}) # {},
     components |-> assigned]

\* RepoMetadata.update_discovery_status: the text, as its two parts.
StatusText(insights, assigned) ==
    [insights |-> insights # {},
     components |-> assigned]

DefaultStatus == [insights |-> FALSE, components |-> <<>>]

update_discovery_status(repo) ==
    [repo EXCEPT !.discovery_phase_status =
        StatusText(repo.insights, repo.assigned_components)]

\* RepoMetadata(name=..., path=...) with the field defaults.
RepoMetadata(name) ==
    [name |-> name,
     discovery_phase_status |-> DefaultStatus,
     insights |-> {},
     assigned_components |-> <<>>,
     deep_analysis |-> None]

ComponentData(name, t) ==
    [name |-> name, repositories |-> <<>>, created_at |-> t]

DependencyRecord(s, tg, ty, t) ==
    [source_repo |-> s, target_repo |-> tg, dependency_type |-> ty,
     created_at |-> t]

DeepAnalysis(t) == [analysis_timestamp |-> t]

AnalysisState(base, t) ==
    [repositories |-> EmptyMap,
     components |-> EmptyMap,
     dependency_records |-> <<>>,
     total_repositories |-> 0,
     repositories_with_insights |-> 0,
     analysis_started |-> None,
     analysis_completed |-> None,
     last_updated |-> t,
     base_repos_path |-> base]

\* ------------------------------------------------------------------ (de)serialization
\* datetime.isoformat(): the fractional part is printed only when the
\* microsecond is not 0.
isoformat(d) == [s |-> d.sec, frac |-> IF d.us = 0 THEN <<>> ELSE <<d.us>>]

fromisoformat(x) == [sec |-> x.s, us |-> IF x.frac = <<>> THEN 0 ELSE x.frac[1]]

\* convert_datetime on an Optional[datetime] leaf.
convert_datetime(v) == IF v = None THEN None ELSE isoformat(v)

\* "if key in data and data[key]: data[key] = fromisoformat(data[key])"
parse_datetime(v) == IF v = None THEN None ELSE fromisoformat(v)

\* _save_to_file: model_dump, then every datetime as an ISO string.
Serialize(st) ==
    [repositories |->
        [r \in DOMAIN st.repositories |->
            [st.repositories[r] EXCEPT !.deep_analysis =
                IF @ = None THEN None
                ELSE [analysis_timestamp |-> isoformat(@.analysis_timestamp)]]],
     components |->
        [c \in DOMAIN st.components |->
            [st.components[c] EXCEPT !.created_at = isoformat(@)]],
     dependency_records |->
        [i \in 1..Len(st.dependency_records) |->
            [st.dependency_records[i] EXCEPT !.created_at = isoformat(@)]],
     total_repositories |-> st.total_repositories,
     repositories_with_insights |-> st.repositories_with_insights,
     analysis_started |-> convert_datetime(st.analysis_started),
     analysis_completed |-> convert_datetime(st.analysis_completed),
     last_updated |-> convert_datetime(st.last_updated),
     base_repos_path |-> st.base_repos_path]

\* _load_from_file on a parsed JSON document.
Deserialize(doc) ==
    [repositories |->
        [r \in DOMAIN doc.repositories |->
            [doc.repositories[r] EXCEPT !.deep_analysis =
                IF @ = None THEN None
                ELSE [analysis_timestamp |-> fromisoformat(@.analysis_timestamp)]]],
     components |->
        [c \in DOMAIN doc.components |->
            [doc.components[c] EXCEPT !.created_at = fromisoformat(@)]],
     dependency_records |->
        [i \in 1..Len(doc.dependency_records) |->
            [doc.dependency_records[i] EXCEPT !.created_at = fromisoformat(@)]],
     total_repositories |-> doc.total_repositories,
     repositories_with_insights |-> doc.repositories_with_insights,
     analysis_started |-> parse_datetime(doc.analysis_started),
     analysis_completed |-> parse_datetime(doc.analysis_completed),
     last_updated |-> parse_datetime(doc.last_updated),
     base_repos_path |-> doc.base_repos_path]

\* ------------------------------------------------------------------ files
Absent == [kind |-> "absent"]
\* A truncated or half-written file: json.load raises on it.
Torn == [kind |-> "torn"]
JsonFile(doc) == [kind |-> "json", doc |-> doc]

Exists(f) == f.kind # "absent"
Parses(f) == f.kind = "json"

\* ------------------------------------------------------------------ state
VARIABLES
    state,      \* the AnalysisState object the caller holds (storage._state_cache
                \* refers to the same object whenever cached); None before a load
    cached,     \* storage._state_cache is not None
    dirty,      \* storage._cache_dirty
    primary,    \* cache_file
    backup,     \* backup_file
    temp,       \* temp_file
    pc,         \* "idle", a position inside save_state, or "down" (process dead)
    resp,       \* the call in progress or the last one returned, with its result
    done,       \* plugin._initial_analysis_done
    now,        \* the wall clock: datetime.now() reads Times[now]
    mutations, faults, restarts   \* budget counters

storeVars == <<state, cached, dirty, primary, backup, temp, pc, resp, done,
               now, mutations, faults, restarts>>

\* One call of ParallelProcessor.process_repositories.
VARIABLES
    paths,      \* repo_paths, the argument
    outcome,    \* outcome[i]: what analyzer_func does on paths[i]
    hasCallback,\* a progress_callback was supplied
    fut,        \* fut[i]: the future of paths[i]: queued, running, done, collected
    results,    \* the results dict
    completed,  \* the completed counter
    calls,      \* the invocations of progress_callback so far
    spc         \* idle, collecting, unwinding, returned, raised

scanVars == <<paths, outcome, hasCallback, fut, results, completed, calls, spc>>

\* One call of a function that only computes: the validation helpers, the
\* cycle detector, the status text, the repository analyzer.
VARIABLES
    arg,        \* the function called and its arguments
    ret         \* what the call produced; None while it has not run

fnVars == <<arg, ret>>

\* The plugin's runtime index of the dependency records.
VARIABLES
    depCache    \* plugin._dependency_cache: None for {}, else both indexes

pluginVars == <<depCache>>

\* Threads of one process sharing the store.
VARIABLES
    lock,       \* storage._lock: the owning thread and its recursion count
    th,         \* th[t]: where thread t is in the call it is making
    access      \* the last access to the live state, the dirty flag or the
                \* files, with whether its thread held the lock

threadVars == <<lock, th, access>>

Threads == {"t1", "t2"}
NoThread == "none"

\* threading.RLock(), not held.
FreeLock == [owner |-> NoThread, count |-> 0]

\* A thread outside every call and every batch_update scope.
IdleThread ==
    [pc |-> "idle",         \* idle, acquire, body, p_write, s_temp, s_backup, s_move
     op |-> "none",         \* the store operation being called
     then |-> "none",       \* the store operation the handler calls next
     scope |-> FALSE,       \* inside a "with storage.batch_update():" block
     old_dirty |-> FALSE,   \* batch_update's local old_dirty
     mutated |-> FALSE,     \* a mutation helper ran inside the scope
     unsaved |-> FALSE,     \* ... and no save_state of the scope wrote since
     last |-> "none"]       \* the last operation that returned to the thread

NoAccess == [thread |-> NoThread, what |-> "none", held |-> TRUE]

\* A single-threaded caller is modelled: no thread record is in use.
ThreadsIdle ==
    /\ lock = FreeLock
    /\ th = [t \in Threads |-> IdleThread]
    /\ access = NoAccess

\* No such call is modelled.
FnIdle ==
    /\ arg = None
    /\ ret = None

\* No call of process_repositories is modelled.
ScanIdle ==
    /\ paths = <<>>
    /\ outcome = <<>>
    /\ hasCallback = FALSE
    /\ fut = <<>>
    /\ results = <<>>
    /\ completed = 0
    /\ calls = <<>>
    /\ spc = "idle"

Now == Times[now]

Response(op, args, ok, why) ==
    [op |-> op, args |-> args, ok |-> ok, why |-> why, save |-> "none", step |-> ""]

\* ------------------------------------------------------------------ storage.py
\* DiscoveryStorage.load_state with no cached instance: <<state, dirty>>.
load_state(base, t, prim, bak, curDirty) ==
    IF Exists(prim) /\ Parses(prim)
    THEN [state |-> [Deserialize(prim.doc) EXCEPT !.base_repos_path = base,
                                                   !.last_updated = t],
          dirty |-> curDirty, from |-> "primary"]
    ELSE IF Exists(prim) /\ Exists(bak) /\ Parses(bak)
    THEN [state |-> [Deserialize(bak.doc) EXCEPT !.base_repos_path = base,
                                                  !.last_updated = t],
          dirty |-> curDirty, from |-> "backup"]
    ELSE [state |-> AnalysisState(base, t), dirty |-> TRUE, from |-> "fresh"]

\* _update_progress_counters counting the repositories without insights: the
\* variant the exactness of the progress counters must tell apart from the
\* code.
update_progress_counters_of_missing(st) ==
    [st EXCEPT !.total_repositories = Cardinality(DOMAIN st.repositories),
               !.repositories_with_insights =
                   Cardinality({r \in DOMAIN st.repositories :
                                   st.repositories[r].insights = {}})]

\* DiscoveryStorage._update_progress_counters
update_progress_counters(st) ==
    [st EXCEPT !.total_repositories = Cardinality(DOMAIN st.repositories),
               !.repositories_with_insights =
                   Cardinality({r \in DOMAIN st.repositories :
                                   st.repositories[r].insights # {}})]

\* DiscoveryStorage.update_repository, on a cached state.
update_repository(st, r, metadata, t) ==
    update_progress_counters(
        [st EXCEPT !.repositories = Upsert(@, r, metadata),
                   !.last_updated = t])

\* DiscoveryStorage.add_component, on a cached state.
add_component(st, c, data, t) ==
    [st EXCEPT !.components = Upsert(@, c, data), !.last_updated = t]

\* DiscoveryStorage.assign_repo_to_component, on a cached state.
assign_repo_to_component(st, r, c, t) ==
    LET s1 == IF r \in DOMAIN st.repositories
                 /\ ~InSeq(c, st.repositories[r].assigned_components)
              THEN [st EXCEPT !.repositories[r] =
                       update_discovery_status(
                           [@ EXCEPT !.assigned_components = Append(@, c)])]
              ELSE st
        s2 == IF c \in DOMAIN s1.components
                 /\ ~InSeq(r, s1.components[c].repositories)
              THEN [s1 EXCEPT !.components[c].repositories = Append(@, r)]
              ELSE s1
    IN  [s2 EXCEPT !.last_updated = t]

\* save_state's first test: "not force and not dirty and _state_cache == state".
\* The caller passes the object the cache refers to, so the comparison is
\* true exactly when there is a cached instance.
SaveIsNoop(force, isDirty, isCached) == ~force /\ ~isDirty /\ isCached

\* Entry of save_state(st, force) for the call described by rsp, with the
\* in-memory effects (st, isDirty) of the calling handler already applied.
EnterSave(st, isDirty, force, t, rsp) ==
    IF SaveIsNoop(force, isDirty, cached)
    THEN /\ state' = st
         /\ dirty' = isDirty
         /\ pc' = "idle"
         /\ resp' = [rsp EXCEPT !.save = "noop"]
    ELSE /\ state' = [st EXCEPT !.last_updated = t]
         /\ dirty' = isDirty
         /\ pc' = "s_temp"
         /\ resp' = [rsp EXCEPT !.save = "running"]

\* The cleanup of the except branch left out: the variant the transience of
\* the temp file must tell apart from the code.
temp_kept(tmp) == tmp

\* "if self.temp_file.exists(): self.temp_file.unlink()"
temp_unlinked(tmp) == Absent

\* SaveFailed with the cleanup unlinking cache_file instead of temp_file: the
\* variant AtomicityUnderFailure must tell apart from the code.
SaveFailedUnlinksCache ==
    /\ primary' = Absent
    /\ temp' = temp
    /\ pc' = "idle"
    /\ resp' = [resp EXCEPT !.save = "failed", !.step = pc,
                            !.ok = IF resp.op = "save_state" THEN FALSE ELSE @]

\* The except branch of save_state: unlink the temp file, return False.
\* A handler of the plugin ignores the value returned by save_state.
SaveFailed ==
    /\ temp' = temp_unlinked(temp)
    /\ primary' = primary
    /\ pc' = "idle"
    /\ resp' = [resp EXCEPT !.save = "failed", !.step = pc,
                            !.ok = IF resp.op = "save_state" THEN FALSE ELSE @]

\* The file _save_to_file(st, path) leaves when it completes.
WrittenFile(st) == JsonFile(Serialize(st))

\* backup_file after "if cache_file.exists(): shutil.copy2(cache_file, backup_file)"
CopiedBackup(prim, bak) == IF Exists(prim) THEN prim ELSE bak

\* _save_to_file(state, temp_file)
SaveWriteTemp ==
    /\ pc = "s_temp"
    /\ \/ /\ temp' = WrittenFile(state)
          /\ pc' = "s_backup"
          /\ UNCHANGED <<resp, faults, primary>>
       \/ /\ faults < MaxFaults
          /\ faults' = faults + 1
          /\ SaveFailed
    /\ UNCHANGED <<state, cached, dirty, backup, done, now, mutations, restarts>>
    /\ UNCHANGED scanVars
    /\ UNCHANGED fnVars
    /\ UNCHANGED pluginVars
    /\ UNCHANGED threadVars

\* "if cache_file.exists(): shutil.copy2(cache_file, backup_file)"
SaveBackup ==
    /\ pc = "s_backup"
    /\ \/ /\ backup' = CopiedBackup(primary, backup)
          /\ pc' = "s_move"
          /\ UNCHANGED <<resp, temp, faults, primary>>
       \/ /\ Exists(primary)
          /\ faults < MaxFaults
          /\ faults' = faults + 1
          /\ backup' \in {backup, Torn}
          /\ SaveFailed
    /\ UNCHANGED <<state, cached, dirty, done, now, mutations, restarts>>
    /\ UNCHANGED scanVars
    /\ UNCHANGED fnVars
    /\ UNCHANGED pluginVars
    /\ UNCHANGED threadVars

\* MoveTempToPrimary as a copy of the bytes followed by an unlink, which can
\* stop half-way: the variant CrashSafetyOfSave must tell apart from the code.
CopyTempToPrimary ==
    /\ primary' \in {temp, Torn}
    /\ temp' \in {temp, Absent}

\* shutil.move(temp_file, cache_file): a rename within one directory.
MoveTempToPrimary ==
    /\ primary' = temp
    /\ temp' = Absent

SaveMove ==
    /\ pc = "s_move"
    /\ \/ /\ MoveTempToPrimary
          /\ cached' = TRUE
          /\ dirty' = FALSE
          /\ pc' = "idle"
          /\ resp' = [resp EXCEPT !.save = "written"]
          /\ UNCHANGED faults
       \/ /\ faults < MaxFaults
          /\ faults' = faults + 1
          /\ SaveFailed
          /\ UNCHANGED <<cached, dirty>>
    /\ UNCHANGED <<state, backup, done, now, mutations, restarts>>
    /\ UNCHANGED scanVars
    /\ UNCHANGED fnVars
    /\ UNCHANGED pluginVars
    /\ UNCHANGED threadVars

\* The process dies. Inside save_state the file being written may be left
\* half-written; the rename is atomic.
Crash ==
    /\ pc \in {"s_temp", "s_backup", "s_move"}
    /\ faults < MaxFaults
    /\ faults' = faults + 1
    /\ \/ /\ temp' \in IF pc = "s_temp" THEN {temp, Torn} ELSE {temp}
          /\ primary' = primary
       \/ /\ pc = "s_move"
          /\ MoveTempToPrimary
    /\ backup' \in IF pc = "s_backup" /\ Exists(primary) THEN {backup, Torn}
                   ELSE {backup}
    /\ pc' = "down"
    /\ state' = None
    /\ cached' = FALSE
    /\ dirty' = FALSE
    /\ done' = FALSE
    /\ resp' = Response("crash", <<>>, FALSE, pc)
    /\ UNCHANGED <<now, mutations, restarts>>
    /\ UNCHANGED scanVars
    /\ UNCHANGED fnVars
    /\ UNCHANGED pluginVars
    /\ UNCHANGED threadVars

\* ------------------------------------------------------------------ environment
\* The primary file is truncated from outside the program.
CorruptPrimary ==
    /\ pc = "idle"
    /\ Exists(primary) /\ primary # Torn
    /\ faults < MaxFaults
    /\ faults' = faults + 1
    /\ primary' = Torn
    /\ resp' = Response("corrupt_primary", <<>>, TRUE, "env")
    /\ UNCHANGED <<state, cached, dirty, backup, temp, pc, done, now, mutations, restarts>>
    /\ UNCHANGED scanVars
    /\ UNCHANGED fnVars
    /\ UNCHANGED pluginVars
    /\ UNCHANGED threadVars

\* The primary file is deleted from outside the program.
DeletePrimary ==
    /\ pc = "idle"
    /\ Exists(primary)
    /\ faults < MaxFaults
    /\ faults' = faults + 1
    /\ primary' = Absent
    /\ resp' = Response("delete_primary", <<>>, TRUE, "env")
    /\ UNCHANGED <<state, cached, dirty, backup, temp, pc, done, now, mutations, restarts>>
    /\ UNCHANGED scanVars
    /\ UNCHANGED fnVars
    /\ UNCHANGED pluginVars
    /\ UNCHANGED threadVars

\* The backup file is truncated from outside the program.
CorruptBackup ==
    /\ pc = "idle"
    /\ Exists(backup) /\ backup # Torn
    /\ faults < MaxFaults
    /\ faults' = faults + 1
    /\ backup' = Torn
    /\ resp' = Response("corrupt_backup", <<>>, TRUE, "env")
    /\ UNCHANGED <<state, cached, dirty, primary, temp, pc, done, now, mutations, restarts>>
    /\ UNCHANGED scanVars
    /\ UNCHANGED fnVars
    /\ UNCHANGED pluginVars
    /\ UNCHANGED threadVars

\* Time passes between two calls.
Tick ==
    /\ pc = "idle"
    /\ now < Len(Times)
    /\ now' = now + 1
    /\ UNCHANGED <<state, cached, dirty, primary, backup, temp, pc, resp, done,
                   mutations, faults, restarts>>
    /\ UNCHANGED scanVars
    /\ UNCHANGED fnVars
    /\ UNCHANGED pluginVars
    /\ UNCHANGED threadVars

\* ------------------------------------------------------------------ store API calls
\* A new DiscoveryStorage over the same directory (or clear_cache with the
\* caller dropping its reference): nothing cached, nothing held.
NewStore ==
    /\ pc \in {"idle", "down"}
    /\ restarts < MaxRestarts
    /\ restarts' = restarts + 1
    /\ state' = None
    /\ cached' = FALSE
    /\ dirty' = FALSE
    /\ pc' = "idle"
    /\ resp' = Response("new_store", <<>>, TRUE, "")
    /\ UNCHANGED <<primary, backup, temp, done, now, mutations, faults>>
    /\ UNCHANGED scanVars
    /\ UNCHANGED fnVars
    /\ UNCHANGED pluginVars
    /\ UNCHANGED threadVars

\* The cached instance with its base path brought up to date, as the file
\* branches of load_state do: the variant the frame property of the cached
\* branch must tell apart from the code.
cached_state_rebased(st, base) == [st EXCEPT !.base_repos_path = base]

\* "if self._state_cache is not None: return self._state_cache"
cached_state(st, base) == st

\* storage.load_state(base)
StoreLoad(base, t) ==
    /\ pc = "idle"
    /\ IF cached
       THEN /\ resp' = Response("load_state", <<base>>, TRUE, "cached")
            /\ state' = cached_state(state, base)
            /\ UNCHANGED <<cached, dirty>>
       ELSE LET res == load_state(base, t, primary, backup, dirty)
            IN  /\ state' = res.state
                /\ cached' = TRUE
                /\ dirty' = res.dirty
                /\ resp' = Response("load_state", <<base>>, TRUE, res.from)
    /\ UNCHANGED <<primary, backup, temp, pc, done, now, mutations, faults, restarts>>
    /\ UNCHANGED scanVars
    /\ UNCHANGED fnVars
    /\ UNCHANGED pluginVars
    /\ UNCHANGED threadVars

\* storage.save_state(state, force) with the object the caller holds.
StoreSave(force, t) ==
    /\ pc = "idle"
    /\ state # None
    /\ EnterSave(state, dirty, force, t,
                 Response("save_state", <<>>, TRUE, IF force THEN "force" ELSE ""))
    /\ UNCHANGED <<cached, primary, backup, temp, done, now, mutations, faults, restarts>>
    /\ UNCHANGED scanVars
    /\ UNCHANGED fnVars
    /\ UNCHANGED pluginVars
    /\ UNCHANGED threadVars

\* storage.update_repository(r, metadata)
StoreUpdateRepository(r, metadata, t) ==
    /\ pc = "idle"
    /\ mutations' = mutations + 1
    /\ IF ~cached
       THEN /\ resp' = Response("update_repository", <<r>>, FALSE, "no_cache")
            /\ UNCHANGED <<state, dirty>>
       ELSE /\ state' = update_repository(state, r, metadata, t)
            /\ dirty' = TRUE
            /\ resp' = Response("update_repository", <<r>>, TRUE, "")
    /\ UNCHANGED <<cached, primary, backup, temp, pc, done, now, faults, restarts>>
    /\ UNCHANGED scanVars
    /\ UNCHANGED fnVars
    /\ UNCHANGED pluginVars
    /\ UNCHANGED threadVars

\* storage.add_component(c, component_data)
StoreAddComponent(c, t) ==
    /\ pc = "idle"
    /\ mutations' = mutations + 1
    /\ IF ~cached
       THEN /\ resp' = Response("add_component", <<c>>, FALSE, "no_cache")
            /\ UNCHANGED <<state, dirty>>
       ELSE /\ state' = add_component(state, c, ComponentData(c, t), t)
            /\ dirty' = TRUE
            /\ resp' = Response("add_component", <<c>>, TRUE, "")
    /\ UNCHANGED <<cached, primary, backup, temp, pc, done, now, faults, restarts>>
    /\ UNCHANGED scanVars
    /\ UNCHANGED fnVars
    /\ UNCHANGED pluginVars
    /\ UNCHANGED threadVars

\* storage.assign_repo_to_component(r, c), any names
StoreAssign(r, c, t) ==
    /\ pc = "idle"
    /\ mutations' = mutations + 1
    /\ IF ~cached
       THEN /\ resp' = Response("assign_repo_to_component", <<r, c>>, FALSE, "no_cache")
            /\ UNCHANGED <<state, dirty>>
       ELSE /\ state' = assign_repo_to_component(state, r, c, t)
            /\ dirty' = TRUE
            /\ resp' = Response("assign_repo_to_component", <<r, c>>, TRUE, "")
    /\ UNCHANGED <<cached, primary, backup, temp, pc, done, now, faults, restarts>>
    /\ UNCHANGED scanVars
    /\ UNCHANGED fnVars
    /\ UNCHANGED pluginVars
    /\ UNCHANGED threadVars

\* ------------------------------------------------------------------ analyzer.py
\* The fields the pydantic models declare; assigning any other attribute of a
\* BaseModel instance raises ValueError.
RepoMetadataFields ==
    {"name", "path", "discovery_phase_status", "total_files", "file_counts",
     "total_lines", "technology_stack", "has_readme", "config_files",
     "insights", "assigned_components", "deep_analysis"}

TechnologyStackFields == {"frameworks"}

FieldsOf(owner) ==
    IF owner = "RepoMetadata" THEN RepoMetadataFields ELSE TechnologyStackFields

Call(name) == [kind |-> "call", owner |-> "self", name |-> name]
SetAttr(owner, field) == [kind |-> "set", owner |-> owner, name |-> field]

\* The statements of the try block of analyze_repository, in order.
TryBlock ==
    << Call("_analyze_file_structure"),
       SetAttr("RepoMetadata", "total_files"),
       SetAttr("RepoMetadata", "file_counts"),
       SetAttr("RepoMetadata", "total_lines"),
       Call("_detect_languages"),
       SetAttr("TechnologyStack", "primary_languages"),
       Call("_find_config_files"),
       SetAttr("RepoMetadata", "config_files"),
       Call("_detect_frameworks"),
       SetAttr("TechnologyStack", "frameworks"),
       Call("_classify_repository_type"),
       SetAttr("RepoMetadata", "repository_type"),
       Call("_analyze_documentation"),
       SetAttr("RepoMetadata", "has_readme"),
       Call("_calculate_confidence"),
       SetAttr("RepoMetadata", "analysis_confidence"),
       Call("update_discovery_status") >>

\* No internal step fails of itself.
NoFailure == "none"

\* The internal step that fails for its own reasons (an unreadable directory,
\* an undecodable file), if any.
AnalyzerFailures ==
    {NoFailure} \cup {TryBlock[i].name : i \in {j \in DOMAIN TryBlock :
                                                  TryBlock[j].kind = "call"}}

StepRaises(step, failing) ==
    IF step.kind = "call" THEN step.name = failing
    ELSE step.name \notin FieldsOf(step.owner)

\* The metadata after one statement that did not raise: an assignment records
\* the field as measured, update_discovery_status recomputes the status.
StepEffect(step, md) ==
    IF step.kind = "set" THEN [md EXCEPT !.measured = @ \cup {step.name}]
    ELSE IF step.name = "update_discovery_status"
         THEN [md EXCEPT !.discovery_phase_status =
                             StatusText(md.insights, md.assigned_components)]
         ELSE md

\* The try block from statement i on: the metadata it leaves and whether a
\* statement raised.
RECURSIVE run_try(_, _, _)
run_try(i, md, failing) ==
    IF i > Len(TryBlock) THEN [raised |-> FALSE, md |-> md]
    ELSE IF StepRaises(TryBlock[i], failing) THEN [raised |-> TRUE, md |-> md]
    ELSE run_try(i + 1, StepEffect(TryBlock[i], md), failing)

Returned(md) == [kind |-> "returned", md |-> md]
Raised == [kind |-> "raised", md |-> None]

\* RepoMetadata(name=repo_name, path=relative_path) as the analyzer sees it:
\* the statistics fields it has measured so far are in "measured", every
\* other statistic has its default.
AnalyzerMetadata(name) ==
    [name |-> name,
     discovery_phase_status |-> DefaultStatus,
     insights |-> {},
     assigned_components |-> <<>>,
     measured |-> {}]

\* "except Exception as e": the error is recorded in insights, then
\* analysis_confidence is assigned.
except_handler(md) ==
    IF StepRaises(SetAttr("RepoMetadata", "analysis_confidence"), NoFailure)
    THEN Raised
    ELSE Returned([md EXCEPT !.insights = @ \cup {AnalysisError}])

\* RepositoryAnalyzer.analyze_repository(repo_path): relative_to raises when
\* the path is not under the base path, before the try block is entered.
analyze_repository(name, under_base, failing) ==
    IF ~under_base THEN Raised
    ELSE LET t == run_try(1, AnalyzerMetadata(name), failing)
         IN  IF t.raised THEN except_handler(t.md) ELSE Returned(t.md)

\* ------------------------------------------------------------------ plugin.py
\* dependency_type.strip().lower() on a character sequence.
RECURSIVE lstrip(_)
lstrip(s) == IF s # <<>> /\ s[1] = " " THEN lstrip(Tail(s)) ELSE s

RECURSIVE rstrip(_)
rstrip(s) == IF s # <<>> /\ s[Len(s)] = " " THEN rstrip(SubSeq(s, 1, Len(s) - 1))
             ELSE s

strip(s) == rstrip(lstrip(s))

lower(s) == [i \in 1..Len(s) |->
                IF s[i] = "A" THEN "a" ELSE IF s[i] = "B" THEN "b" ELSE s[i]]

\* The normalisation left out: the variant DependencyUniqueness must tell
\* apart from the code.
normalized_type_omitted(ty) == ty

\* "dependency_type = dependency_type.strip().lower()"
normalized_type(ty) == lower(strip(ty))

\* The record process_repositories returns for a path whose scan raised.
ErrorMetadata(r) == [RepoMetadata(r) EXCEPT !.insights = {AnalysisError}]

\* RepositoryAnalyzer.analyze_repository: the assignment to
\* technology_stack.primary_languages (no such field) raises inside the try
\* block, and the handler's own assignment to analysis_confidence (no such
\* field either) raises out of the function.
analyze_repository_raises(r) ==
    \A f \in AnalyzerFailures : analyze_repository(r, TRUE, f).kind = "raised"

\* What process_repositories hands back to _perform_initial_analysis for
\* repository r (its progress callback only prints).
ScanResult(r) ==
    IF analyze_repository_raises(r) THEN ErrorMetadata(r)
    ELSE update_discovery_status(RepoMetadata(r))

CountWithInsights(st) ==
    Cardinality({r \in DOMAIN st.repositories : st.repositories[r].insights # {}})

\* storage.save_state(self.state) as a handler calls it (force=False), with
\* every disk operation succeeding: the three steps of save_state in one.
PluginSave(st, isDirty, rsp) ==
    IF SaveIsNoop(FALSE, isDirty, cached)
    THEN /\ state' = st
         /\ dirty' = isDirty
         /\ resp' = [rsp EXCEPT !.save = "noop"]
         /\ UNCHANGED <<cached, primary, backup, temp>>
    ELSE LET st1 == [st EXCEPT !.last_updated = Now]
         IN  /\ state' = st1
             /\ backup' = CopiedBackup(primary, backup)
             /\ primary' = WrittenFile(st1)
             /\ temp' = Absent
             /\ cached' = TRUE
             /\ dirty' = FALSE
             /\ resp' = [rsp EXCEPT !.save = "written"]

\* Rejected with last_updated stamped before the validation ran: the variant
\* RejectedCallsChangeNothing must tell apart from the code.
RejectedAfterStamp(op, args, why) ==
    /\ resp' = Response(op, args, FALSE, why)
    /\ state' = [state EXCEPT !.last_updated = Now]
    /\ dirty' = TRUE
    /\ UNCHANGED <<cached, primary, backup, temp>>

\* A handler that returns a failure response before touching anything.
Rejected(op, args, why) ==
    /\ resp' = Response(op, args, FALSE, why)
    /\ UNCHANGED <<state, cached, dirty, primary, backup, temp>>

\* _initial_analysis_done never taken from the loaded state: the variant
\* the scan-once property must tell apart from the code.
initial_analysis_forgotten(st) == FALSE

\* "self._initial_analysis_done = self.state.analysis_completed is not None"
initial_analysis_done(st) == st.analysis_completed # None

\* DiscoveryMemoryPlugin.__init__ in a new process over the same directory.
PluginStart ==
    /\ restarts < MaxRestarts
    /\ restarts' = restarts + 1
    /\ LET res == load_state(BasePath, Now, primary, backup, FALSE)
       IN  /\ state' = res.state
           /\ dirty' = res.dirty
           /\ done' = initial_analysis_done(res.state)
           /\ resp' = Response("plugin_start", <<>>, TRUE, res.from)
    /\ cached' = TRUE
    /\ UNCHANGED <<primary, backup, temp, pc, now, mutations, faults>>
    /\ UNCHANGED scanVars
    /\ UNCHANGED fnVars
    /\ depCache' = None
    /\ UNCHANGED threadVars

\* _perform_initial_analysis, the repositories directory holding Repos.
perform_initial_analysis(st) ==
    LET s1 == [st EXCEPT !.analysis_started = Now,
                         !.total_repositories = Cardinality(Repos)]
        \* "with batch_update(): for ...: state.repositories[name] = metadata;
        \*  storage.update_repository(name, metadata)"
        s2 == update_progress_counters(
                  [s1 EXCEPT !.repositories =
                      [r \in (DOMAIN @) \cup Repos |->
                          IF r \in Repos THEN ScanResult(r) ELSE @[r]],
                             !.last_updated = Now])
    IN  [s2 EXCEPT !.repositories_with_insights = CountWithInsights(s2),
                   !.analysis_completed = Now]

\* get_all_repos
GetAllRepos ==
    /\ mutations' = mutations + 1
    /\ IF ~done
       THEN /\ done' = TRUE
            /\ PluginSave(perform_initial_analysis(state), TRUE,
                          Response("get_all_repos", <<>>, TRUE, "analysed"))
       ELSE /\ resp' = Response("get_all_repos", <<>>, TRUE, "cached")
            /\ UNCHANGED <<state, cached, dirty, primary, backup, temp, done>>
    /\ UNCHANGED <<pc, now, faults, restarts>>
    /\ UNCHANGED scanVars
    /\ UNCHANGED fnVars
    /\ UNCHANGED pluginVars
    /\ UNCHANGED threadVars

\* The insights of the call replacing those recorded: the variant the
\* append-only property must tell apart from the code.
replaced_insights(recorded, ins) == ins

\* "repo_metadata.insights.update(insights)": the keys after the update.
merged_insights(recorded, ins) == recorded \cup ins

\* store_repo_insights(repo_name, insights)
StoreRepoInsights(r, ins) ==
    /\ mutations' = mutations + 1
    /\ IF r \notin DOMAIN state.repositories
       THEN Rejected("store_repo_insights", <<r>>, "not_found")
       ELSE LET md == update_discovery_status(
                          [state.repositories[r] EXCEPT
                              !.insights = merged_insights(@, ins)])
                s1 == [state EXCEPT !.repositories[r] = md]
                s2 == [s1 EXCEPT !.repositories_with_insights = CountWithInsights(s1)]
            IN  PluginSave(update_repository(s2, r, md, Now), TRUE,
                           Response("store_repo_insights", <<r>>, TRUE, ""))
    /\ UNCHANGED <<pc, done, now, faults, restarts>>
    /\ UNCHANGED scanVars
    /\ UNCHANGED fnVars
    /\ UNCHANGED pluginVars
    /\ UNCHANGED threadVars

\* Component names a caller may pass that are not well formed: the empty
\* name, one with a space, one made of a hyphen only.
BadComps == {"", "c 1", "-"}
CompArgs == Comps \cup BadComps

\* The characters of the names above.
NameChars(name) ==
    CASE name = "c1" -> <<"c", "1">>
      [] name = "c2" -> <<"c", "2">>
      [] name = "" -> <<>>
      [] name = "c 1" -> <<"c", " ", "1">>
      [] name = "-" -> <<"-">>

AlnumChars == {"c", "1", "2"}

\* str.replace(ch, '')
remove_char(s, ch) == SelectSeq(s, LAMBDA x : x # ch)

\* str.isalnum(): false on the empty string
isalnum(s) == s # <<>> /\ \A i \in 1..Len(s) : s[i] \in AlnumChars

\* "name and name.replace('-', '').replace('_', '').isalnum()"
valid_component_name(name) ==
    LET s == NameChars(name)
    IN  s # <<>> /\ isalnum(remove_char(remove_char(s, "-"), "_"))

\* add_component(name, purpose, rationale)
AddComponent(c) ==
    /\ mutations' = mutations + 1
    /\ IF ~valid_component_name(c)
       THEN Rejected("add_component", <<c>>, "invalid_name")
       ELSE IF c \in DOMAIN state.components
       THEN Rejected("add_component", <<c>>, "exists")
       ELSE PluginSave(add_component(state, c, ComponentData(c, Now), Now), TRUE,
                       Response("add_component", <<c>>, TRUE, ""))
    /\ UNCHANGED <<pc, done, now, faults, restarts>>
    /\ UNCHANGED scanVars
    /\ UNCHANGED fnVars
    /\ UNCHANGED pluginVars
    /\ UNCHANGED threadVars

\* assign_repo_to_component(repo_name, component_name)
AssignRepoToComponent(r, c) ==
    /\ mutations' = mutations + 1
    /\ IF r \notin DOMAIN state.repositories
       THEN Rejected("assign_repo_to_component", <<r, c>>, "repo_not_found")
       ELSE IF c \notin DOMAIN state.components
       THEN Rejected("assign_repo_to_component", <<r, c>>, "component_not_found")
       ELSE IF InSeq(c, state.repositories[r].assigned_components)
       THEN Rejected("assign_repo_to_component", <<r, c>>, "already_assigned")
       ELSE PluginSave(assign_repo_to_component(state, r, c, Now), TRUE,
                       Response("assign_repo_to_component", <<r, c>>, TRUE, ""))
    /\ UNCHANGED <<pc, done, now, faults, restarts>>
    /\ UNCHANGED scanVars
    /\ UNCHANGED fnVars
    /\ UNCHANGED pluginVars
    /\ UNCHANGED threadVars

\* store_repository_deep_analysis(repo_name, markdown_summary, deep_insights)
StoreRepositoryDeepAnalysis(r) ==
    /\ mutations' = mutations + 1
    /\ IF r \notin DOMAIN state.repositories
       THEN Rejected("store_repository_deep_analysis", <<r>>, "not_found")
       ELSE PluginSave([state EXCEPT !.repositories[r].deep_analysis = DeepAnalysis(Now)],
                       dirty,
                       Response("store_repository_deep_analysis", <<r>>, TRUE, ""))
    /\ UNCHANGED <<pc, done, now, faults, restarts>>
    /\ UNCHANGED scanVars
    /\ UNCHANGED fnVars
    /\ UNCHANGED pluginVars
    /\ UNCHANGED threadVars

\* A quotient of two integers, kept exact: the value num / den.
Frac(num, den) == [num |-> num, den |-> den]
FracLeq(x, y) == x.num * y.den <= y.num * x.den
FracEq(x, y) == x.num * y.den = y.num * x.den

\* _calculate_assignment_coverage counting the repositories without a
\* component: the variant the coverage properties must tell apart from the
\* code.
coverage_of_unassigned(st) ==
    IF DOMAIN st.repositories = {} THEN Frac(0, 1)
    ELSE Frac(Cardinality({r \in DOMAIN st.repositories :
                              st.repositories[r].assigned_components = <<>>}) * 100,
              Cardinality(DOMAIN st.repositories))

\* _calculate_assignment_coverage: assigned_count / len(repositories) * 100
calculate_assignment_coverage(st) ==
    IF DOMAIN st.repositories = {} THEN Frac(0, 1)
    ELSE Frac(Cardinality({r \in DOMAIN st.repositories :
                              st.repositories[r].assigned_components # <<>>}) * 100,
              Cardinality(DOMAIN st.repositories))

\* The entry of the outgoing index for dependency record dep.
outgoing_entry(dep) ==
    [target_repo |-> dep.target_repo, dependency_type |-> dep.dependency_type,
     created_at |-> isoformat(dep.created_at)]

\* The entry of the incoming index for dependency record dep.
incoming_entry(dep) ==
    [source_repo |-> dep.source_repo, dependency_type |-> dep.dependency_type,
     created_at |-> isoformat(dep.created_at)]

\* _build_dependency_cache: each index maps a repository to the entries of
\* its records, in the order of dependency_records.
build_dependency_cache(records) ==
    LET from(r) == SelectSeq(records, LAMBDA d : d.source_repo = r)
        to(r) == SelectSeq(records, LAMBDA d : d.target_repo = r)
    IN  [outgoing |->
            [r \in {records[i].source_repo : i \in 1..Len(records)} |->
                [i \in 1..Len(from(r)) |-> outgoing_entry(from(r)[i])]],
         incoming |->
            [r \in {records[i].target_repo : i \in 1..Len(records)} |->
                [i \in 1..Len(to(r)) |-> incoming_entry(to(r)[i])]]]

\* The index left as it is by an added record: the variant the coherence of
\* the index must tell apart from the code.
dependency_cache_kept(cache) == cache

\* _clear_dependency_cache: "self._dependency_cache = {}"
clear_dependency_cache(cache) == None

\* The index after _get_outgoing_dependencies and _get_incoming_dependencies:
\* built when the key looked up is not in it.
looked_up_cache(cache, records) ==
    IF cache = None THEN build_dependency_cache(records) ELSE cache

\* get_repository_details(repo_name, include_dependencies)
GetRepositoryDetails(r, include_dependencies) ==
    /\ mutations' = mutations + 1
    /\ IF r \notin DOMAIN state.repositories
       THEN /\ Rejected("get_repository_details", <<r>>, "not_found")
            /\ UNCHANGED depCache
       ELSE /\ resp' = Response("get_repository_details", <<r>>, TRUE,
                                IF include_dependencies THEN "dependencies" ELSE "")
            /\ depCache' = IF include_dependencies
                           THEN looked_up_cache(depCache, state.dependency_records)
                           ELSE depCache
            /\ UNCHANGED <<state, cached, dirty, primary, backup, temp>>
    /\ UNCHANGED <<pc, done, now, faults, restarts>>
    /\ UNCHANGED scanVars
    /\ UNCHANGED fnVars
    /\ UNCHANGED threadVars

\* The duplicate test of add_repository_dependency.
DependencyExists(records, s, tg, ty) ==
    \E i \in 1..Len(records) :
        /\ records[i].source_repo = s
        /\ records[i].target_repo = tg
        /\ records[i].dependency_type = ty

\* add_repository_dependency(source_repo, target_repo, dependency_type, ...)
AddRepositoryDependency(s, tg, ty) ==
    /\ mutations' = mutations + 1
    /\ IF s \notin DOMAIN state.repositories
       THEN Rejected("add_repository_dependency", <<s, tg, ty>>, "source_not_found")
       ELSE IF tg \notin DOMAIN state.repositories
       THEN Rejected("add_repository_dependency", <<s, tg, ty>>, "target_not_found")
       ELSE IF ty = <<>>
       THEN Rejected("add_repository_dependency", <<s, tg, ty>>, "empty_type")
       ELSE IF DependencyExists(state.dependency_records, s, tg, normalized_type(ty))
       THEN Rejected("add_repository_dependency", <<s, tg, ty>>, "duplicate")
       ELSE PluginSave([state EXCEPT !.dependency_records =
                           Append(@, DependencyRecord(s, tg, normalized_type(ty), Now))],
                       dirty,
                       Response("add_repository_dependency", <<s, tg, ty>>, TRUE, ""))
    /\ UNCHANGED <<pc, done, now, faults, restarts>>
    /\ UNCHANGED scanVars
    /\ UNCHANGED fnVars
    \* _clear_dependency_cache() is reached by the accepted call only
    /\ depCache' = IF resp'.ok THEN clear_dependency_cache(depCache) ELSE depCache
    /\ UNCHANGED threadVars

\* A plugin constructed over an empty storage directory: load_state finds no
\* file and creates a fresh state.
Init ==
    /\ state = AnalysisState(BasePath, Times[1])
    /\ cached = TRUE
    /\ dirty = TRUE
    /\ primary = Absent
    /\ backup = Absent
    /\ temp = Absent
    /\ pc = "idle"
    /\ resp = Response("plugin_start", <<>>, TRUE, "fresh")
    /\ done = FALSE
    /\ now = 1
    /\ mutations = 0
    /\ faults = 0
    /\ restarts = 0
    /\ ScanIdle
    /\ FnIdle
    /\ depCache = None
    /\ ThreadsIdle

Next ==
    \/ /\ mutations < MaxCalls
       /\ GetAllRepos
    \/ /\ mutations < MaxCalls
       /\ \E r \in RepoArgs, ins \in SUBSET Keys : StoreRepoInsights(r, ins)
    \/ /\ mutations < MaxCalls
       /\ \E c \in CompArgs : AddComponent(c)
    \/ /\ mutations < MaxCalls
       /\ \E r \in RepoArgs, c \in Comps : AssignRepoToComponent(r, c)
    \/ /\ mutations < MaxCalls
       /\ \E r \in RepoArgs : StoreRepositoryDeepAnalysis(r)
    \/ /\ mutations < MaxCalls
       /\ \E s \in RepoArgs, tg \in RepoArgs, ty \in TypeArgs :
             AddRepositoryDependency(s, tg, ty)
    \/ /\ mutations < MaxCalls
       /\ \E r \in RepoArgs, d \in BOOLEAN : GetRepositoryDetails(r, d)
    \/ PluginStart
    \/ Tick

InitStore ==
    /\ state = None
    /\ cached = FALSE
    /\ dirty = FALSE
    /\ primary = Absent
    /\ backup = Absent
    /\ temp = Absent
    /\ pc = "idle"
    /\ resp = Response("init", <<>>, TRUE, "")
    /\ done = FALSE
    /\ mutations = 0
    /\ faults = 0
    /\ restarts = 0
    /\ now = 1
    /\ ScanIdle
    /\ FnIdle
    /\ depCache = None
    /\ ThreadsIdle

\* Metadata records a caller hands to update_repository: as produced by a
\* scan, with or without insights.
MetadataArgs(r) ==
    {[RepoMetadata(r) EXCEPT !.insights = ins] : ins \in SUBSET Keys}

NextStore ==
    \/ \E b \in BasePathArgs : StoreLoad(b, Now)
    \/ \E f \in BOOLEAN : StoreSave(f, Now)
    \/ /\ mutations < MaxMutations
       /\ \E m \in MetadataArgs("r1") : StoreUpdateRepository("r1", m, Now)
    \/ /\ mutations < MaxMutations
       /\ StoreAddComponent("c1", Now)
    \/ /\ mutations < MaxMutations
       /\ StoreAssign("r1", "c1", Now)
    \/ Tick
    \/ SaveWriteTemp
    \/ SaveBackup
    \/ SaveMove
    \/ Crash
    \/ CorruptPrimary
    \/ DeletePrimary
    \/ CorruptBackup
    \/ NewStore

\* The mutation helpers alone, on a store that has loaded a fresh state.
NextHelpers ==
    \/ /\ ~cached
       /\ StoreLoad(BasePath, Now)
    \/ /\ mutations < MaxHelperCalls
       /\ \E r \in Repos : \E m \in MetadataArgs(r) : StoreUpdateRepository(r, m, Now)
    \/ /\ mutations < MaxHelperCalls
       /\ \E c \in Comps : StoreAddComponent(c, Now)
    \/ /\ mutations < MaxHelperCalls
       /\ \E r \in Repos, c \in Comps : StoreAssign(r, c, Now)

vars == <<storeVars, scanVars, fnVars, pluginVars, threadVars>>

Spec == Init /\ [][Next]_vars

SpecStore == InitStore /\ [][NextStore]_vars

SpecHelpers == InitStore /\ [][NextHelpers]_vars

\* ------------------------------------------------------------------ helpers.py
\* ParallelProcessor(max_workers=4)
max_workers == 4

\* A pool of a single worker, free only when no scan runs: the variant the
\* isolation of a hung scan must tell apart from the code.
worker_free_when_none_runs(futs) ==
    Cardinality({j \in DOMAIN futs : futs[j] = "running"}) = 0

\* ThreadPoolExecutor(max_workers=self.max_workers): a worker is free while
\* fewer than max_workers submitted calls run.
worker_free(futs) ==
    Cardinality({j \in DOMAIN futs : futs[j] = "running"}) < max_workers

\* Paths a caller may pass: a parent directory and a basename. Two of them
\* share the basename.
PathArgs ==
    {[dir |-> "a", name |-> "x"], [dir |-> "b", name |-> "x"],
     [dir |-> "a", name |-> "y"]}

\* Lists of distinct paths of at most MaxPaths entries.
PathLists ==
    {ps \in UNION {[1..n -> PathArgs] : n \in 0..MaxPaths} :
        \A i, j \in 1..Len(ps) : ps[i] = ps[j] => i = j}

\* The value analyzer_func returns for path p when it returns.
AnalyzerResult(p) == [name |-> p.name, path |-> p, insights |-> {"k1"}]

\* "error_metadata = RepoMetadata(name=repo_name, path=...);
\*  error_metadata.insights['analysis_error'] = str(e)"
error_metadata(p) == [name |-> p.name, path |-> p, insights |-> {AnalysisError}]

\* One invocation of progress_callback(completed, total, label).
CallbackCall(n, total, name, isError, raised) ==
    [completed |-> n, total |-> total, name |-> name, error |-> isError,
     raised |-> raised]

\* process_repositories(repo_paths, analyzer_func, progress_callback) up to
\* the end of the submit loop: every path has a queued future.
ProcessRepositories(ps, out, cb) ==
    /\ spc = "idle"
    /\ paths' = ps
    /\ outcome' = out
    /\ hasCallback' = cb
    /\ fut' = [i \in 1..Len(ps) |-> "queued"]
    /\ results' = <<>>
    /\ completed' = 0
    /\ calls' = <<>>
    /\ spc' = "collecting"
    /\ UNCHANGED storeVars
    /\ UNCHANGED fnVars
    /\ UNCHANGED pluginVars
    /\ UNCHANGED threadVars

\* A worker thread of the pool takes a queued future.
WorkerStart(i) ==
    /\ spc \in {"collecting", "unwinding"}
    /\ fut[i] = "queued"
    /\ worker_free(fut)
    /\ fut' = [fut EXCEPT ![i] = "running"]
    /\ UNCHANGED <<paths, outcome, hasCallback, results, completed, calls, spc>>
    /\ UNCHANGED storeVars
    /\ UNCHANGED fnVars
    /\ UNCHANGED pluginVars
    /\ UNCHANGED threadVars

\* analyzer_func(paths[i]) returns or raises in its worker thread; a scan
\* that hangs does neither.
WorkerFinish(i) ==
    /\ spc \in {"collecting", "unwinding"}
    /\ fut[i] = "running"
    /\ outcome[i] # "hangs"
    /\ fut' = [fut EXCEPT ![i] = "done"]
    /\ UNCHANGED <<paths, outcome, hasCallback, results, completed, calls, spc>>
    /\ UNCHANGED storeVars
    /\ UNCHANGED fnVars
    /\ UNCHANGED pluginVars
    /\ UNCHANGED threadVars

\* One iteration of "for future in as_completed(future_to_path)" on the
\* finished future i. r1 tells whether the callback raises when called in the
\* try block, r2 whether it raises when called in the except block.
Collect(i, r1, r2) ==
    /\ spc = "collecting"
    /\ fut[i] = "done"
    /\ fut' = [fut EXCEPT ![i] = "collected"]
    /\ LET path == paths[i]
           total == Len(paths)
           scanned == outcome[i] = "ok"
           \* the try block, as far as it gets
           res1 == IF scanned THEN Upsert(results, path.name, AnalyzerResult(path))
                   ELSE results
           n1 == IF scanned THEN completed + 1 ELSE completed
           called1 == scanned /\ hasCallback
           calls1 == IF called1
                     THEN Append(calls, CallbackCall(n1, total, path.name, FALSE, r1))
                     ELSE calls
           caught == ~scanned \/ (called1 /\ r1)
           \* the except block
           res2 == Upsert(res1, path.name, error_metadata(path))
           n2 == n1 + 1
           calls2 == IF hasCallback
                     THEN Append(calls1, CallbackCall(n2, total, path.name, TRUE, r2))
                     ELSE calls1
       IN  IF ~caught
           THEN /\ results' = res1
                /\ completed' = n1
                /\ calls' = calls1
                /\ spc' = "collecting"
           ELSE /\ results' = res2
                /\ completed' = n2
                /\ calls' = calls2
                \* an exception raised in the except block leaves the loop
                /\ spc' = IF hasCallback /\ r2 THEN "unwinding" ELSE "collecting"
    /\ UNCHANGED <<paths, outcome, hasCallback>>
    /\ UNCHANGED storeVars
    /\ UNCHANGED fnVars
    /\ UNCHANGED pluginVars
    /\ UNCHANGED threadVars

\* The loop is over: the with block exits and "return results" runs.
Return ==
    /\ spc = "collecting"
    /\ \A i \in DOMAIN fut : fut[i] = "collected"
    /\ spc' = "returned"
    /\ UNCHANGED <<paths, outcome, hasCallback, fut, results, completed, calls>>
    /\ UNCHANGED storeVars
    /\ UNCHANGED fnVars
    /\ UNCHANGED pluginVars
    /\ UNCHANGED threadVars

\* An exception is leaving the with block: ThreadPoolExecutor.__exit__ waits
\* for every submitted future, then the exception reaches the caller.
Raise ==
    /\ spc = "unwinding"
    /\ \A i \in DOMAIN fut : fut[i] \in {"done", "collected"}
    /\ spc' = "raised"
    /\ UNCHANGED <<paths, outcome, hasCallback, fut, results, completed, calls>>
    /\ UNCHANGED storeVars
    /\ UNCHANGED fnVars
    /\ UNCHANGED pluginVars
    /\ UNCHANGED threadVars

\* What analyzer_func does on a path: it returns, it raises, or it never
\* comes back (a read of the file system that hangs).
Outcomes == {"ok", "raises", "hangs"}

NextScan ==
    \/ \E ps \in PathLists : \E out \in [1..Len(ps) -> Outcomes] :
          \E cb \in BOOLEAN : ProcessRepositories(ps, out, cb)
    \/ \E i \in DOMAIN fut : WorkerStart(i)
    \/ \E i \in DOMAIN fut : WorkerFinish(i)
    \/ \E i \in DOMAIN fut : \E r1, r2 \in BOOLEAN : Collect(i, r1, r2)
    \/ Return
    \/ Raise

SpecScan == InitStore /\ [][NextScan]_vars

\* The pool's worker threads take a queued future whenever one of them is
\* free, and a scan that does not hang comes to its end.
SpecScanFair ==
    /\ InitStore
    /\ [][NextScan]_vars
    /\ WF_vars(\E i \in DOMAIN fut : WorkerStart(i))
    /\ WF_vars(\E i \in DOMAIN fut : WorkerFinish(i))

\* ------------------------------------------------------------------ storage.py, threads
\* The operations of DiscoveryStorage a thread may call, with the arguments
\* update_repository("r1", metadata), add_component("c1", data),
\* assign_repo_to_component("r1", "c1"), save_state(state).
MutationOps == {"update_repository", "add_component", "assign_repo_to_component"}
StoreOps == MutationOps \cup {"load_state", "save_state", "batch_update"}

\* The mutation helpers running without the lock: the variant the absence
\* of lost updates must tell apart from the code.
LockedOpsWithoutHelpers == {"load_state", "save_state", "batch_update"}

\* The operations whose body is inside "with self._lock:".
LockedOps ==
    {"load_state", "save_state", "update_repository", "add_component",
     "assign_repo_to_component", "batch_update"}

\* acquire() of a threading.Lock, which its own holder cannot take again:
\* the variant the re-entrancy property must tell apart from the code.
can_acquire_plain(lk, t) == lk.owner = NoThread

\* acquire() of the threading.RLock succeeds when the lock is free or held by
\* the calling thread.
can_acquire(lk, t) == lk.owner = NoThread \/ lk.owner = t

acquired(lk, t) == [owner |-> t, count |-> lk.count + 1]

released(lk) ==
    IF lk.count <= 1 THEN FreeLock ELSE [lk EXCEPT !.count = @ - 1]

Holds(t) == lock.owner = t

\* The lock after "with self._lock:" of operation op is left by thread t.
AfterWith(op) == IF op \in LockedOps THEN released(lock) ELSE lock

Access(t, what) == [thread |-> t, what |-> what, held |-> Holds(t)]

\* Thread t back from operation op: in the handler's next store call, or idle.
ReturnedFrom(t, op) ==
    IF th[t].then = "none"
    THEN [th[t] EXCEPT !.pc = "idle", !.op = "none", !.last = op]
    ELSE [th[t] EXCEPT !.pc = "acquire", !.op = th[t].then, !.then = "none",
                       !.last = op]

\* Thread t calls a store operation, or enters "with batch_update():".
ThreadCall(t, op) ==
    /\ th[t].pc = "idle"
    /\ op = "batch_update" => ~th[t].scope
    /\ mutations' = mutations + 1
    /\ th' = [th EXCEPT ![t].pc = "acquire", ![t].op = op]
    /\ UNCHANGED <<state, cached, dirty, primary, backup, temp, pc, resp, done,
                   now, faults, restarts>>
    /\ UNCHANGED <<lock, access>>
    /\ UNCHANGED scanVars
    /\ UNCHANGED fnVars
    /\ UNCHANGED pluginVars

\* "with self._lock:" at the head of the operation; batch_update then reads
\* the dirty flag and yields to the block.
ThreadAcquire(t) ==
    /\ th[t].pc = "acquire"
    /\ IF th[t].op \in LockedOps
       THEN /\ can_acquire(lock, t)
            /\ lock' = acquired(lock, t)
       ELSE lock' = lock
    /\ IF th[t].op = "batch_update"
       THEN /\ th' = [th EXCEPT ![t].pc = "idle", ![t].op = "none",
                                ![t].scope = TRUE, ![t].old_dirty = dirty,
                                ![t].mutated = FALSE, ![t].unsaved = FALSE]
            /\ access' = [thread |-> t, what |-> "dirty", held |-> lock'.owner = t]
       ELSE /\ th' = [th EXCEPT ![t].pc = "body"]
            /\ access' = access
    /\ UNCHANGED <<state, cached, dirty, primary, backup, temp, pc, resp, done,
                   now, mutations, faults, restarts>>
    /\ UNCHANGED scanVars
    /\ UNCHANGED fnVars
    /\ UNCHANGED pluginVars

\* The body of update_repository, add_component or assign_repo_to_component.
ThreadMutate(t) ==
    /\ th[t].pc = "body"
    /\ th[t].op \in MutationOps
    /\ IF ~cached
       THEN /\ resp' = Response(th[t].op, <<t>>, FALSE, "no_cache")
            /\ UNCHANGED <<state, dirty>>
       ELSE /\ state' =
                  CASE th[t].op = "update_repository" ->
                           update_repository(state, "r1",
                               IF "r1" \in DOMAIN state.repositories
                               THEN state.repositories["r1"] ELSE RepoMetadata("r1"),
                               Now)
                    [] th[t].op = "add_component" ->
                           add_component(state, "c1", ComponentData("c1", Now), Now)
                    [] th[t].op = "assign_repo_to_component" ->
                           assign_repo_to_component(state, "r1", "c1", Now)
            /\ dirty' = TRUE
            /\ resp' = Response(th[t].op, <<t>>, TRUE, "")
    /\ access' = Access(t, "state")
    /\ lock' = AfterWith(th[t].op)
    /\ th' = [th EXCEPT ![t] = [ReturnedFrom(t, th[t].op) EXCEPT
                                   !.mutated = @ \/ th[t].scope,
                                   !.unsaved = @ \/ th[t].scope]]
    /\ UNCHANGED <<cached, primary, backup, temp, pc, done, now, mutations,
                   faults, restarts>>
    /\ UNCHANGED scanVars
    /\ UNCHANGED fnVars
    /\ UNCHANGED pluginVars

\* The body of load_state.
ThreadLoad(t) ==
    /\ th[t].pc = "body"
    /\ th[t].op = "load_state"
    /\ IF cached
       THEN /\ resp' = Response("load_state", <<t>>, TRUE, "cached")
            /\ state' = cached_state(state, BasePath)
            /\ UNCHANGED <<cached, dirty>>
       ELSE LET res == load_state(BasePath, Now, primary, backup, dirty)
            IN  /\ state' = res.state
                /\ cached' = TRUE
                /\ dirty' = res.dirty
                /\ resp' = Response("load_state", <<t>>, TRUE, res.from)
    /\ access' = Access(t, "state")
    /\ lock' = AfterWith("load_state")
    /\ th' = [th EXCEPT ![t] = ReturnedFrom(t, "load_state")]
    /\ UNCHANGED <<primary, backup, temp, pc, done, now, mutations, faults, restarts>>
    /\ UNCHANGED scanVars
    /\ UNCHANGED fnVars
    /\ UNCHANGED pluginVars

\* save_state(state) up to "state.last_updated = datetime.now()", force=False
\* as every caller in the repository passes.
ThreadSaveEnter(t) ==
    /\ th[t].pc = "body"
    /\ th[t].op = "save_state"
    /\ access' = Access(t, "state")
    /\ IF SaveIsNoop(FALSE, dirty, cached)
       THEN /\ resp' = [Response("save_state", <<t>>, TRUE, "") EXCEPT !.save = "noop"]
            /\ lock' = AfterWith("save_state")
            /\ th' = [th EXCEPT ![t] = ReturnedFrom(t, "save_state")]
            /\ state' = state
       ELSE /\ state' = [state EXCEPT !.last_updated = Now]
            /\ th' = [th EXCEPT ![t].pc = "s_temp"]
            /\ UNCHANGED <<lock, resp>>
    /\ UNCHANGED <<cached, dirty, primary, backup, temp, pc, done, now, mutations,
                   faults, restarts>>
    /\ UNCHANGED scanVars
    /\ UNCHANGED fnVars
    /\ UNCHANGED pluginVars

\* _save_to_file(state, temp_file), or the except branch when it raises.
ThreadSaveWriteTemp(t) ==
    /\ th[t].pc = "s_temp"
    /\ access' = Access(t, "disk")
    /\ \/ /\ temp' = WrittenFile(state)
          /\ th' = [th EXCEPT ![t].pc = "s_backup"]
          /\ UNCHANGED <<lock, resp, faults>>
       \/ /\ faults < MaxFaults
          /\ faults' = faults + 1
          /\ temp' = temp_unlinked(temp)
          /\ resp' = [Response("save_state", <<t>>, FALSE, "") EXCEPT
                         !.save = "failed", !.step = "s_temp"]
          /\ lock' = AfterWith("save_state")
          /\ th' = [th EXCEPT ![t] = ReturnedFrom(t, "save_state")]
    /\ UNCHANGED <<state, cached, dirty, primary, backup, pc, done, now, mutations,
                   restarts>>
    /\ UNCHANGED scanVars
    /\ UNCHANGED fnVars
    /\ UNCHANGED pluginVars

\* "if cache_file.exists(): shutil.copy2(cache_file, backup_file)"
ThreadSaveBackup(t) ==
    /\ th[t].pc = "s_backup"
    /\ access' = Access(t, "disk")
    /\ backup' = CopiedBackup(primary, backup)
    /\ th' = [th EXCEPT ![t].pc = "s_move"]
    /\ UNCHANGED <<state, cached, dirty, primary, temp, pc, resp, done, now,
                   mutations, faults, restarts>>
    /\ UNCHANGED lock
    /\ UNCHANGED scanVars
    /\ UNCHANGED fnVars
    /\ UNCHANGED pluginVars

\* shutil.move, "_state_cache = state", "_cache_dirty = False", return True.
ThreadSaveMove(t) ==
    /\ th[t].pc = "s_move"
    /\ access' = Access(t, "disk")
    /\ MoveTempToPrimary
    /\ cached' = TRUE
    /\ dirty' = FALSE
    /\ resp' = [Response("save_state", <<t>>, TRUE, "") EXCEPT !.save = "written"]
    /\ lock' = AfterWith("save_state")
    /\ th' = [th EXCEPT ![t] = [ReturnedFrom(t, "save_state") EXCEPT
                                   !.unsaved = FALSE]]
    /\ UNCHANGED <<state, backup, pc, done, now, mutations, faults, restarts>>
    /\ UNCHANGED scanVars
    /\ UNCHANGED fnVars
    /\ UNCHANGED pluginVars

\* The flag put back as it was on entry: the variant the batching property
\* must tell apart from the code.
dirty_restored(isDirty, old_dirty) == old_dirty

\* "if self._cache_dirty != old_dirty: self._cache_dirty = True"
dirty_after_batch(isDirty, old_dirty) ==
    IF isDirty # old_dirty THEN TRUE ELSE isDirty

\* The block of "with storage.batch_update():" ends: the finally clause runs
\* and the lock is released.
ThreadBatchExit(t) ==
    /\ th[t].pc = "idle"
    /\ th[t].scope
    /\ dirty' = dirty_after_batch(dirty, th[t].old_dirty)
    /\ access' = Access(t, "dirty")
    /\ lock' = AfterWith("batch_update")
    /\ th' = [th EXCEPT ![t].scope = FALSE, ![t].last = "batch_update"]
    /\ resp' = Response("batch_update", <<t>>, TRUE, "")
    /\ UNCHANGED <<state, cached, primary, backup, temp, pc, done, now, mutations,
                   faults, restarts>>
    /\ UNCHANGED scanVars
    /\ UNCHANGED fnVars
    /\ UNCHANGED pluginVars

\* A thread starts the plugin's store_repo_insights("r1", {"k1": ...}) on a
\* repository of the state.
ThreadStoreRepoInsights(t) ==
    /\ th[t].pc = "idle"
    /\ ~th[t].scope
    /\ "r1" \in DOMAIN state.repositories
    /\ mutations' = mutations + 1
    /\ th' = [th EXCEPT ![t].pc = "p_write", ![t].op = "store_repo_insights"]
    /\ UNCHANGED <<state, cached, dirty, primary, backup, temp, pc, resp, done,
                   now, faults, restarts>>
    /\ UNCHANGED <<lock, access>>
    /\ UNCHANGED scanVars
    /\ UNCHANGED fnVars
    /\ UNCHANGED pluginVars

\* store_repo_insights up to its store calls: "repo_metadata.insights.update",
\* update_discovery_status and the counter are applied to self.state, the
\* object the store caches; storage.update_repository and storage.save_state
\* follow.
ThreadWriteInsights(t) ==
    /\ th[t].pc = "p_write"
    /\ LET md == update_discovery_status(
                     [state.repositories["r1"] EXCEPT
                         !.insights = merged_insights(@, {"k1"})])
           s1 == [state EXCEPT !.repositories["r1"] = md]
       IN  state' = [s1 EXCEPT !.repositories_with_insights = CountWithInsights(s1)]
    /\ access' = Access(t, "state")
    /\ th' = [th EXCEPT ![t].pc = "acquire", ![t].op = "update_repository",
                        ![t].then = "save_state"]
    /\ UNCHANGED <<cached, dirty, primary, backup, temp, pc, resp, done, now,
                   mutations, faults, restarts>>
    /\ UNCHANGED lock
    /\ UNCHANGED scanVars
    /\ UNCHANGED fnVars
    /\ UNCHANGED pluginVars

\* The store of a process whose plugin has loaded its state: a fresh one from
\* an empty directory, or the one an earlier process saved there.
InitThreads ==
    /\ \/ /\ state = AnalysisState(BasePath, Times[1])
          /\ dirty = TRUE
          /\ primary = Absent
       \/ /\ primary = WrittenFile(AnalysisState(BasePath, Times[1]))
          /\ state = load_state(BasePath, Times[1], primary, Absent, FALSE).state
          /\ dirty = FALSE
    /\ cached = TRUE
    /\ backup = Absent
    /\ temp = Absent
    /\ pc = "idle"
    /\ resp = Response("plugin_start", <<>>, TRUE, "")
    /\ done = FALSE
    /\ now = 1
    /\ mutations = 0
    /\ faults = 0
    /\ restarts = 0
    /\ ScanIdle
    /\ FnIdle
    /\ depCache = None
    /\ ThreadsIdle

\* One step of thread t inside the call it is making.
ThreadStep(t) ==
    \/ ThreadAcquire(t)
    \/ ThreadMutate(t)
    \/ ThreadLoad(t)
    \/ ThreadSaveEnter(t)
    \/ ThreadSaveWriteTemp(t)
    \/ ThreadSaveBackup(t)
    \/ ThreadSaveMove(t)
    \/ ThreadBatchExit(t)

NextThreads ==
    \/ /\ mutations < MaxThreadCalls
       /\ \E t \in Threads, op \in StoreOps : ThreadCall(t, op)
    \/ \E t \in Threads : ThreadAcquire(t)
    \/ \E t \in Threads : ThreadMutate(t)
    \/ \E t \in Threads : ThreadLoad(t)
    \/ \E t \in Threads : ThreadSaveEnter(t)
    \/ \E t \in Threads : ThreadSaveWriteTemp(t)
    \/ \E t \in Threads : ThreadSaveBackup(t)
    \/ \E t \in Threads : ThreadSaveMove(t)
    \/ \E t \in Threads : ThreadBatchExit(t)

\* The threads call the store only.
SpecThreads == InitThreads /\ [][NextThreads]_vars

\* The threads call the store and the plugin's store_repo_insights.
NextPluginThreads ==
    \/ NextThreads
    \/ /\ mutations < MaxThreadCalls
       /\ \E t \in Threads : ThreadStoreRepoInsights(t)
    \/ \E t \in Threads : ThreadWriteInsights(t)

SpecPluginThreads == InitThreads /\ [][NextPluginThreads]_vars

\* Every thread goes on with the call it is making whenever it can, and the
\* block of a batch_update scope comes to its end.
SpecThreadsFair ==
    /\ InitThreads
    /\ [][NextThreads]_vars
    /\ \A t \in Threads : WF_vars(ThreadStep(t))

\* ------------------------------------------------------------------ pure functions
\* ---- plugin.py: _detect_circular_dependencies
GraphNodes == {"r1", "r2", "r3"}
EdgeTypes == {<<"a">>, <<"b">>}

\* Dependency records as add_repository_dependency leaves them: no triple
\* twice; at most MaxEdges of them.
EdgeArgs ==
    {DependencyRecord(s, tg, ty, Times[1]) :
        s \in GraphNodes, tg \in GraphNodes, ty \in EdgeTypes}

EdgeLists ==
    {es \in UNION {[1..n -> EdgeArgs] : n \in 0..MaxEdges} :
        \A i, j \in 1..Len(es) : es[i] = es[j] => i = j}

\* The keys of the adjacency dict "graph", in insertion order.
RECURSIVE graph_keys(_)
graph_keys(records) ==
    IF records = <<>> THEN <<>>
    ELSE LET front == graph_keys(SubSeq(records, 1, Len(records) - 1))
             src == records[Len(records)].source_repo
         IN  IF InSeq(src, front) THEN front ELSE Append(front, src)

\* graph.get(node, []): the targets of node's records, in record order.
RECURSIVE graph_get(_, _)
graph_get(records, node) ==
    IF records = <<>> THEN <<>>
    ELSE LET front == graph_get(SubSeq(records, 1, Len(records) - 1), node)
             last == records[Len(records)]
         IN  IF last.source_repo = node THEN Append(front, last.target_repo)
             ELSE front

\* The nested function has_path(start, end, path).
RECURSIVE has_path(_, _, _, _)
has_path(records, start, end, path) ==
    IF start = end /\ Len(path) > 1 THEN TRUE
    ELSE IF InSeq(start, path) THEN FALSE
    ELSE LET neighbors == graph_get(records, start)
         IN  \E i \in 1..Len(neighbors) :
                has_path(records, neighbors[i], end, Append(path, start))

\* The pairs the two nested for loops visit, in order.
RECURSIVE graph_pairs(_, _, _)
graph_pairs(records, keys, k) ==
    IF k > Len(keys) THEN <<>>
    ELSE LET targets == graph_get(records, keys[k])
         IN  [i \in 1..Len(targets) |-> <<keys[k], targets[i]>>]
                \o graph_pairs(records, keys, k + 1)

\* The body of the loops from pair i on, with visited_pairs and cycles.
RECURSIVE check_pairs(_, _, _, _, _)
check_pairs(records, pairs, i, visited_pairs, cycles) ==
    IF i > Len(pairs) THEN cycles
    ELSE LET pair == pairs[i]
             reverse_pair == <<pair[2], pair[1]>>
         IN  IF pair \notin visited_pairs /\ reverse_pair \notin visited_pairs
             THEN check_pairs(records, pairs, i + 1, visited_pairs \cup {pair},
                              IF has_path(records, pair[2], pair[1], <<>>)
                              THEN Append(cycles, pair) ELSE cycles)
             ELSE check_pairs(records, pairs, i + 1, visited_pairs, cycles)

detect_circular_dependencies(records) ==
    check_pairs(records, graph_pairs(records, graph_keys(records), 1), 1, {}, <<>>)

DetectCircularDependencies ==
    /\ arg # None /\ arg.fn = "_detect_circular_dependencies"
    /\ ret = None
    /\ ret' = [cycles |-> detect_circular_dependencies(arg.records)]
    /\ UNCHANGED <<arg, storeVars, scanVars, pluginVars, threadVars>>

\* ---- models.py: RepoMetadata.update_discovery_status
\* Records the method may be called on: any insights, any assignments, the
\* status text of an earlier moment.
StatusRecords ==
    {[name |-> n, discovery_phase_status |-> st, insights |-> ins,
      assigned_components |-> ac, deep_analysis |-> None] :
        n \in Repos,
        st \in {DefaultStatus, StatusText({"k1"}, <<"c2">>)},
        ins \in {{}, {"k1"}, {AnalysisError}, {"k1", AnalysisError}},
        ac \in {<<>>, <<"c1">>, <<"c2">>, <<"c1", "c2">>}}

UpdateDiscoveryStatus ==
    /\ arg # None /\ arg.fn = "update_discovery_status"
    /\ ret = None
    /\ ret' = update_discovery_status(arg.repo)
    /\ UNCHANGED <<arg, storeVars, scanVars, pluginVars, threadVars>>

\* ---- analyzer.py: RepositoryAnalyzer.analyze_repository
AnalyzerArgs ==
    {[fn |-> "analyze_repository", name |-> r, under_base |-> u, failing |-> f] :
        r \in Repos, u \in BOOLEAN, f \in AnalyzerFailures}

AnalyzeRepository ==
    /\ arg # None
    /\ arg.fn = "analyze_repository"
    /\ ret = None
    /\ ret' = analyze_repository(arg.name, arg.under_base, arg.failing)
    /\ UNCHANGED <<arg, storeVars, scanVars, pluginVars, threadVars>>

\* ---- helpers.py: ValidationHelper.validate_component_size
\* The literals of validate_component_size ...
warn_too_large == 30
warn_too_small == 3
\* ... and those of _get_size_category.
category_too_large == 30
category_appropriate == 3

\* _get_size_category testing "repo_count > 30": the variant the size
\* classification must tell apart from the code.
get_size_category_above(repo_count) ==
    IF repo_count > category_too_large THEN "too_large"
    ELSE IF repo_count >= category_appropriate THEN "appropriate"
    ELSE IF repo_count = 1 THEN "single_repo"
    ELSE "too_small"

get_size_category(repo_count) ==
    IF repo_count >= category_too_large THEN "too_large"
    ELSE IF repo_count >= category_appropriate THEN "appropriate"
    ELSE IF repo_count = 1 THEN "single_repo"
    ELSE "too_small"

\* The warnings and suggestions lists after the if / elif chain.
size_findings(repo_count) ==
    IF repo_count >= warn_too_large
    THEN [warnings |-> <<"Component is too large (30+ repositories)">>,
          suggestions |-> <<"Consider splitting into smaller, focused components">>]
    ELSE IF repo_count = 1
    THEN [warnings |-> <<"Component contains only one repository">>,
          suggestions |-> <<"Consider if this represents a major standalone system">>]
    ELSE IF repo_count < warn_too_small
    THEN [warnings |-> <<"Component is quite small (<3 repositories)">>,
          suggestions |-> <<"Consider merging with related components if appropriate">>]
    ELSE [warnings |-> <<>>, suggestions |-> <<>>]

\* validate_component_size(component_data, repo_count); component_data is
\* not read.
validate_component_size(repo_count) ==
    LET f == size_findings(repo_count)
    IN  [is_valid |-> Len(f.warnings) = 0,
         warnings |-> f.warnings,
         suggestions |-> f.suggestions,
         size_category |-> get_size_category(repo_count)]

RepoCounts == 0..MaxRepoCount

ValidateComponentSize ==
    /\ arg # None
    /\ arg.fn = "validate_component_size"
    /\ ret = None
    /\ ret' = validate_component_size(arg.repo_count)
    /\ UNCHANGED <<arg, storeVars, scanVars, pluginVars, threadVars>>

\* ---- helpers.py: ValidationHelper.validate_repo_assignments
\* The coverage computed from the unassigned repositories alone: the variant
\* the validation summary must tell apart from the code.
assignment_coverage_of_unassigned(st, unassigned_repos) ==
    IF DOMAIN st.repositories = {} THEN Frac(0, 1)
    ELSE Frac(Cardinality(unassigned_repos) * 100,
              Cardinality(DOMAIN st.repositories))

\* "(len(state.repositories) - len(unassigned_repos)) / len(state.repositories)
\*  * 100 if state.repositories else 0"
assignment_coverage(st, unassigned_repos) ==
    IF DOMAIN st.repositories = {} THEN Frac(0, 1)
    ELSE Frac((Cardinality(DOMAIN st.repositories) - Cardinality(unassigned_repos)) * 100,
              Cardinality(DOMAIN st.repositories))

\* validate_repo_assignments(state).  The three lists are built in the
\* iteration order of the dictionaries; they are kept here as the sets of
\* their elements.
validate_repo_assignments(st) ==
    LET unassigned_repos ==
            {r \in DOMAIN st.repositories :
                st.repositories[r].assigned_components = <<>>}
        multi_assigned_repos ==
            {[repo |-> r, components |-> st.repositories[r].assigned_components] :
                r \in {x \in DOMAIN st.repositories :
                          /\ st.repositories[x].assigned_components # <<>>
                          /\ Len(st.repositories[x].assigned_components) > 1}}
        orphaned_components ==
            {c \in DOMAIN st.components : st.components[c].repositories = <<>>}
    IN  [unassigned_repos |-> unassigned_repos,
         multi_assigned_repos |-> multi_assigned_repos,
         orphaned_components |-> orphaned_components,
         assignment_coverage |-> assignment_coverage(st, unassigned_repos)]

\* The states handed to the validation: any subset of the repositories, each
\* assigned to no, one or two components, and the components that hold them
\* (or none).
RepoOrder == <<"r1", "r2">>
AssignmentLists == {<<>>, <<"c1">>, <<"c2">>, <<"c1", "c2">>}

AssignedState(assigned, comps) ==
    [AnalysisState(BasePath, 0) EXCEPT
        !.repositories =
            [r \in DOMAIN assigned |->
                [RepoMetadata(r) EXCEPT !.assigned_components = assigned[r]]],
        !.components =
            [c \in comps |->
                [ComponentData(c, 0) EXCEPT !.repositories =
                    SelectSeq(RepoOrder,
                              LAMBDA r : /\ r \in DOMAIN assigned
                                         /\ InSeq(c, assigned[r]))]],
        !.total_repositories = Cardinality(DOMAIN assigned)]

AssignedStates ==
    UNION {UNION {{AssignedState(assigned, comps) :
                      comps \in {cs \in SUBSET Comps :
                                    \A r \in rs : \A i \in 1..Len(assigned[r]) :
                                        assigned[r][i] \in cs}} :
                  assigned \in [rs -> AssignmentLists]} :
           rs \in SUBSET Repos}

ValidateRepoAssignments ==
    /\ arg # None
    /\ arg.fn = "validate_repo_assignments"
    /\ ret = None
    /\ ret' = validate_repo_assignments(arg.state)
    /\ UNCHANGED <<arg, storeVars, scanVars, pluginVars, threadVars>>

\* ---- the calls made and the specification
FnInputs ==
    {[fn |-> "_detect_circular_dependencies", records |-> es] : es \in EdgeLists}
    \cup {[fn |-> "update_discovery_status", repo |-> r] : r \in StatusRecords}
    \cup AnalyzerArgs
    \cup {[fn |-> "validate_component_size", repo_count |-> n] : n \in RepoCounts}
    \cup {[fn |-> "validate_repo_assignments", state |-> st] : st \in AssignedStates}

InitFn ==
    /\ state = None
    /\ cached = FALSE
    /\ dirty = FALSE
    /\ primary = Absent
    /\ backup = Absent
    /\ temp = Absent
    /\ pc = "idle"
    /\ resp = Response("init", <<>>, TRUE, "")
    /\ done = FALSE
    /\ mutations = 0
    /\ faults = 0
    /\ restarts = 0
    /\ now = 1
    /\ ScanIdle
    /\ arg \in FnInputs
    /\ ret = None
    /\ depCache = None
    /\ ThreadsIdle

NextFn ==
    \/ DetectCircularDependencies
    \/ UpdateDiscoveryStatus
    \/ AnalyzeRepository
    \/ ValidateComponentSize
    \/ ValidateRepoAssignments

SpecFn == InitFn /\ [][NextFn]_vars

\* ------------------------------------------------------------------ properties
\* What a load compares: the three collections of a state.
Content(st) ==
    [repositories |-> st.repositories,
     components |-> st.components,
     dependency_records |-> st.dependency_records]

\* C1. Bidirectional assignment: for every repository record r and component
\* record c of the store, r is listed in c's repositories exactly when c is
\* listed in r's assigned_components, in every state the store's helpers
\* (assign_repo_to_component with any names among them) can reach.
C1_BidirectionalAssignment ==
    state # None =>
        \A r \in DOMAIN state.repositories, c \in DOMAIN state.components :
            InSeq(r, state.components[c].repositories)
                <=> InSeq(c, state.repositories[r].assigned_components)

\* The handlers of the plugin that change the state.
ChangingOps ==
    {"store_repo_insights", "add_component", "assign_repo_to_component",
     "add_repository_dependency", "store_repository_deep_analysis"}

\* C2. Every state-changing handler that returns success (no disk error
\* occurring) leaves a primary file holding the change: the file parses and
\* deserializes to the collections of the in-memory state. In particular a
\* save that skips the write does so only when the file already holds them.
C2_EveryChangePersisted ==
    (resp.op \in ChangingOps /\ resp.ok) =>
        /\ Parses(primary)
        /\ Content(Deserialize(primary.doc)) = Content(state)

\* C3. Round trip: once save_state(state) has returned True, load_state on the
\* same directory with nothing cached yields a state whose repositories,
\* components and dependency_records (datetimes formatted and parsed back)
\* equal those of the saved state.
C3_RoundTripPersistence ==
    resp.save \in {"noop", "written"} =>
        Content(load_state(BasePath, Now, primary, backup, FALSE).state)
            = Content(state)

\* C4. Atomicity under failure: a save_state that fails after the temp file
\* has been written and before the primary is replaced returns False, and all
\* the steps of the call up to and including the failing one leave the primary
\* file as it was.
C4_AtomicityUnderFailure ==
    /\ [][(pc \in {"s_backup", "s_move"} /\ resp'.save = "failed")
            => (resp'.ok = FALSE /\ primary' = primary /\ temp' = Absent)]_vars
    /\ [][(pc \in {"s_temp", "s_backup"}) => primary' = primary]_vars

\* A failed save_state that got past writing the temp file, the primary still
\* holding an earlier snapshot that differs from the state being saved.
C4_Witness ==
    /\ pc = "idle"
    /\ resp.op = "save_state" /\ resp.save = "failed" /\ ~resp.ok
    /\ resp.step \in {"s_backup", "s_move"}
    /\ Parses(primary)
    /\ Content(Deserialize(primary.doc)) # Content(state)

\* C5. Crash safety: every step taken inside save_state, a crash included,
\* leaves the primary file either as it was before the step (absent if nothing
\* was ever saved, else the complete previous snapshot) or as the complete
\* file of the state being saved; never a half-written one.
C5_CrashSafetyOfSave ==
    [][(pc \in {"s_temp", "s_backup", "s_move"})
          => (primary' = primary \/ primary' = WrittenFile(state))]_vars

\* The process died while writing the temp file, which is left half-written;
\* the primary is a complete earlier snapshot.
C5_Witness ==
    /\ pc = "down"
    /\ resp.op = "crash" /\ resp.why = "s_temp"
    /\ temp = Torn
    /\ Parses(primary)

\* C6. Load fallback chain: load_state with nothing cached returns the
\* deserialized primary if it parses, else the deserialized backup if that
\* parses, else a fresh empty state; in each case rooted at the given base
\* path.
C6_LoadFallbackChain ==
    (resp.op = "load_state" /\ resp.why # "cached") =>
        /\ state.base_repos_path = resp.args[1]
        /\ Content(state) =
              IF Parses(primary) THEN Content(Deserialize(primary.doc))
              ELSE IF Parses(backup) THEN Content(Deserialize(backup.doc))
              ELSE Content(AnalysisState(resp.args[1], Now))

\* C7. Recovery after corruption: with the primary corrupted on disk and a
\* backup that parses, load_state with nothing cached returns the backup's
\* content, and a save_state(state) (force=False) issued next that returns
\* True has left a primary file that parses.
C7_RecoveryAfterCorruption ==
    /\ [][(~cached /\ primary = Torn /\ Parses(backup) /\ resp'.op = "load_state")
            => Content(state') = Content(Deserialize(backup.doc))]_vars
    /\ [][(resp.op = "load_state" /\ resp.why = "backup"
           /\ resp'.op = "save_state" /\ resp'.why = "" /\ pc' = "idle" /\ resp'.ok)
            => Parses(primary')]_vars

\* A dependency type trimmed and lower-cased, for comparison.
NormalType(ty) == lower(strip(ty))

\* C10. Dependency uniqueness: no two dependency records share source, target
\* and type (the type trimmed and lower-cased), and an
\* add_repository_dependency call whose triple is already recorded is rejected
\* and leaves the number of records unchanged.
C10_DependencyUniqueness ==
    /\ [](\A i, j \in 1..Len(state.dependency_records) :
            (/\ state.dependency_records[i].source_repo
                    = state.dependency_records[j].source_repo
             /\ state.dependency_records[i].target_repo
                    = state.dependency_records[j].target_repo
             /\ NormalType(state.dependency_records[i].dependency_type)
                    = NormalType(state.dependency_records[j].dependency_type))
            => i = j)
    /\ [][(/\ resp'.op = "add_repository_dependency"
           /\ mutations' = mutations + 1
           /\ \E i \in 1..Len(state.dependency_records) :
                /\ state.dependency_records[i].source_repo = resp'.args[1]
                /\ state.dependency_records[i].target_repo = resp'.args[2]
                /\ NormalType(state.dependency_records[i].dependency_type)
                       = NormalType(resp'.args[3]))
            => (/\ ~resp'.ok
                /\ Len(state'.dependency_records) = Len(state.dependency_records))]_vars

\* A dependency recorded as "a" and the same pair offered again as " A": the
\* second call was rejected as a duplicate.
C10_Witness ==
    /\ resp.op = "add_repository_dependency"
    /\ resp.args[3] = <<" ", "A">>
    /\ resp.why = "duplicate"
    /\ Len(state.dependency_records) = 1
    /\ state.dependency_records[1].dependency_type = <<"a">>

\* The paths of the call have pairwise different basenames.
DistinctNames == \A i, j \in 1..Len(paths) : paths[i].name = paths[j].name => i = j

\* C8. Scan batch completeness: the mapping process_repositories returns for
\* a list of N paths (paths whose scan raises among them) has exactly N keys,
\* and the record of every path whose scan raised carries an analysis_error
\* insight.
C8_ScanBatchCompleteness ==
    spc = "returned" =>
        /\ Cardinality(DOMAIN results) = Len(paths)
        /\ \A i \in 1..Len(paths) :
              outcome[i] = "raises" =>
                  /\ paths[i].name \in DOMAIN results
                  /\ AnalysisError \in results[paths[i].name].insights

\* C9. Progress callback isolation: whatever the callback does,
\* process_repositories returns, the callback has been invoked for every
\* path, and the record returned for a path whose scan returned is the one
\* the scan produced (basenames being distinct).
C9_ProgressCallbackIsolation ==
    /\ spc # "raised"
    /\ (spc = "returned" /\ DistinctNames) =>
          \A i \in 1..Len(paths) :
             /\ hasCallback => \E k \in 1..Len(calls) : calls[k].name = paths[i].name
             /\ outcome[i] = "ok" =>
                   /\ paths[i].name \in DOMAIN results
                   /\ results[paths[i].name] = AnalyzerResult(paths[i])

\* The handlers of the plugin that validate their arguments.
ValidatingOps == ChangingOps

\* The validation of handler op rejects args in the current state.
FailsValidation(op, args) ==
    CASE op = "add_component" ->
            \/ ~valid_component_name(args[1])
            \/ args[1] \in DOMAIN state.components
      [] op = "assign_repo_to_component" ->
            \/ args[1] \notin DOMAIN state.repositories
            \/ args[2] \notin DOMAIN state.components
            \/ InSeq(args[2], state.repositories[args[1]].assigned_components)
      [] op = "add_repository_dependency" ->
            \/ args[1] \notin DOMAIN state.repositories
            \/ args[2] \notin DOMAIN state.repositories
            \/ args[3] = <<>>
            \/ \E i \in 1..Len(state.dependency_records) :
                  /\ state.dependency_records[i].source_repo = args[1]
                  /\ state.dependency_records[i].target_repo = args[2]
                  /\ state.dependency_records[i].dependency_type
                        = lower(strip(args[3]))
      [] OTHER -> args[1] \notin DOMAIN state.repositories

\* C11. Rejected calls change nothing: a handler call whose arguments fail
\* validation (unknown repository or component, duplicate or malformed
\* component name, repository already assigned, duplicate dependency, empty
\* dependency type) returns a failure response, and a call that returns a
\* failure response leaves the in-memory state, the dirty flag and the three
\* files as they were.
C11_RejectedCallsChangeNothing ==
    [][(resp'.op \in ValidatingOps /\ mutations' = mutations + 1) =>
          /\ FailsValidation(resp'.op, resp'.args) => ~resp'.ok
          /\ ~resp'.ok =>
                /\ state' = state
                /\ dirty' = dirty
                /\ cached' = cached
                /\ primary' = primary /\ backup' = backup /\ temp' = temp]_vars

\* add_component with a name that already exists has just been rejected, on
\* a state that has been saved.
C11_Witness ==
    /\ resp.op = "add_component" /\ resp.why = "exists" /\ ~resp.ok
    /\ resp.args[1] \in DOMAIN state.components
    /\ Parses(primary)

\* The records hold an edge from a to b.
HasEdge(records, a, b) ==
    \E i \in 1..Len(records) :
        records[i].source_repo = a /\ records[i].target_repo = b

\* How many entries of cycles name the pair a, b, in either order.
TimesReported(cycles, a, b) ==
    Cardinality({i \in 1..Len(cycles) : cycles[i] \in {<<a, b>>, <<b, a>>}})

\* C12. Mirror-pair cycle detection: whenever the records hold an edge from
\* A to B and one from B to A (A different from B), the detector's result
\* names the pair exactly once, whatever the number of dependency types
\* recorded between the two.
C12_MirrorPairCycleDetection ==
    (arg # None /\ arg.fn = "_detect_circular_dependencies" /\ ret # None) =>
        \A a, b \in GraphNodes :
            (a # b /\ HasEdge(arg.records, a, b) /\ HasEdge(arg.records, b, a))
                => TimesReported(ret.cycles, a, b) = 1

\* C13. Cycle detector scope: when no edge of the records has a mirror edge
\* (a longer cycle such as A to B, B to C, C to A included), the detector
\* reports no cycle.
C13_CycleDetectorScope ==
    (arg # None /\ arg.fn = "_detect_circular_dependencies" /\ ret # None) =>
        ((\A a, b \in GraphNodes :
             HasEdge(arg.records, a, b) => ~HasEdge(arg.records, b, a))
            => ret.cycles = <<>>)

\* C14. Status kept in sync: every repository record of the plugin's state
\* (each produced by the scan and then modified only by store_repo_insights,
\* assign_repo_to_component and the deep-analysis handler) carries the status
\* text that update_discovery_status derives from its current insights and
\* assigned_components.
C14_StatusKeptInSync ==
    \A r \in DOMAIN state.repositories :
        state.repositories[r].discovery_phase_status
            = update_discovery_status(state.repositories[r]).discovery_phase_status

\* C15, as stated. The status text is a function of the pair (insights
\* non-empty, assigned_components non-empty) alone: every record with the same
\* pair gets the same text.
C15_StatusFunctionOfTwoBooleans ==
    (arg # None /\ arg.fn = "update_discovery_status" /\ ret # None) =>
        \A q \in StatusRecords :
            (/\ (q.insights # {}) = (arg.repo.insights # {})
             /\ (q.assigned_components # <<>>) = (arg.repo.assigned_components # <<>>))
            => update_discovery_status(q).discovery_phase_status
                  = ret.discovery_phase_status

\* C15, amended. The status text is a function of (insights non-empty, the
\* list of assigned component names) alone: every record that agrees on both
\* gets the same text, whatever its name, its other insights or its earlier
\* text; the method changes no other field, and recomputing with unchanged
\* inputs changes nothing.
C15_StatusFunctionOfFlagAndComponents ==
    (arg # None /\ arg.fn = "update_discovery_status" /\ ret # None) =>
        /\ \A q \in StatusRecords :
              (/\ (q.insights # {}) = (arg.repo.insights # {})
               /\ q.assigned_components = arg.repo.assigned_components)
              => update_discovery_status(q).discovery_phase_status
                    = ret.discovery_phase_status
        /\ [ret EXCEPT !.discovery_phase_status = arg.repo.discovery_phase_status]
              = arg.repo
        /\ update_discovery_status(ret) = ret

\* The text of a record with two insights and two components has been
\* recomputed from a stale one.
C15_Witness ==
    /\ arg # None /\ arg.fn = "update_discovery_status" /\ ret # None
    /\ Cardinality(ret.insights) = 2
    /\ Len(ret.assigned_components) = 2
    /\ ret.discovery_phase_status # arg.repo.discovery_phase_status

\* C16. Coverage monotonicity: across any assign_repo_to_component call of
\* the plugin, accepted or rejected, the assignment coverage percentage does
\* not decrease.
C16_CoverageMonotonicity ==
    [][(resp'.op = "assign_repo_to_component" /\ mutations' = mutations + 1)
          => FracLeq(calculate_assignment_coverage(state),
                     calculate_assignment_coverage(state'))]_vars

\* An accepted assignment has just raised the coverage to one repository out
\* of two.
C16_Witness ==
    /\ resp.op = "assign_repo_to_component" /\ resp.ok
    /\ FracEq(calculate_assignment_coverage(state), Frac(50, 1))

\* C17. Scanner never raises: for every repository path under the base path
\* analyze_repository returns a record, and when an internal step fails the
\* record carries insights['analysis_error'] and default statistics.
C17_ScannerNeverRaises ==
    (arg # None /\ arg.fn = "analyze_repository" /\ arg.under_base /\ ret # None)
        => /\ ret.kind = "returned"
           /\ arg.failing # NoFailure
                  => /\ AnalysisError \in ret.md.insights
                     /\ ret.md.measured = {}

C20_AssignmentValidation ==
    (arg # None /\ arg.fn = "validate_repo_assignments" /\ ret # None)
        => LET st == arg.state
               total == Cardinality(DOMAIN st.repositories)
               multi == {m.repo : m \in ret.multi_assigned_repos}
           IN  /\ ret.unassigned_repos \subseteq DOMAIN st.repositories
               /\ multi \subseteq DOMAIN st.repositories
               /\ \A r \in DOMAIN st.repositories :
                     /\ (r \in ret.unassigned_repos)
                            <=> (Len(st.repositories[r].assigned_components) = 0)
                     /\ (r \in multi)
                            <=> (Len(st.repositories[r].assigned_components) > 1)
                     /\ ~(r \in ret.unassigned_repos /\ r \in multi)
               /\ IF total = 0
                  THEN ret.assignment_coverage.num = 0
                  ELSE FracEq(ret.assignment_coverage,
                              Frac((total - Cardinality(ret.unassigned_repos)) * 100,
                                   total))
               /\ FracEq(ret.assignment_coverage, calculate_assignment_coverage(st))

\* A state with one repository in two components and one in none has been
\* validated: half of the repositories are covered.
C20_Witness ==
    /\ arg # None /\ arg.fn = "validate_repo_assignments" /\ ret # None
    /\ ret.unassigned_repos = {"r2"}
    /\ ret.multi_assigned_repos = {[repo |-> "r1", components |-> <<"c1", "c2">>]}
    /\ FracEq(ret.assignment_coverage, Frac(50, 1))

\* C23. Progress counters are exact: after every completed initial analysis
\* and every store_repo_insights call (each of which calls update_repository),
\* total_repositories is the number of entries of repositories and
\* repositories_with_insights is the number of repositories whose insights
\* are not empty.
C23_ProgressCountersExact ==
    [][(/\ resp'.op \in {"get_all_repos", "store_repo_insights"}
        /\ mutations' = mutations + 1)
          => /\ state'.total_repositories = Cardinality(DOMAIN state'.repositories)
             /\ state'.repositories_with_insights =
                    Cardinality({r \in DOMAIN state'.repositories :
                                    state'.repositories[r].insights # {}})]_vars

\* store_repo_insights has stored a key for one of two scanned repositories,
\* and both count as having insights.
C23_Witness ==
    /\ resp.op = "store_repo_insights" /\ resp.ok
    /\ DOMAIN state.repositories = Repos
    /\ "k1" \in state.repositories["r1"].insights
    /\ state.total_repositories = 2
    /\ state.repositories_with_insights = 2

\* C24. Scan at most once: get_all_repos runs the initial analysis only if
\* none has completed; once one has completed, in this process or as recorded
\* in the state the process loaded, get_all_repos scans nothing and answers
\* from the inventory it holds.
C24_ScanAtMostOnce ==
    [][(resp'.op = "get_all_repos" /\ mutations' = mutations + 1)
          => IF done \/ state.analysis_completed # None
             THEN /\ resp'.why = "cached"
                  /\ state' = state
                  /\ primary' = primary
             ELSE /\ resp'.why = "analysed"
                  /\ state'.analysis_completed # None
                  /\ done']_vars

\* A process started over the files of an analysed directory has answered
\* get_all_repos from the loaded inventory.
C24_Witness ==
    /\ resp.op = "get_all_repos" /\ resp.why = "cached"
    /\ restarts = 1
    /\ mutations = 2
    /\ state.last_updated # state.analysis_completed
    /\ DOMAIN state.repositories = Repos

\* C26. Temp file is transient: after any save_state call has returned,
\* with true (written or nothing to write) or with false (a step failed),
\* the .tmp file does not exist.
C26_TempFileIsTransient ==
    (pc = "idle" /\ resp.op = "save_state") => temp = Absent

\* C26, amended. After a save_state call that wrote the state or failed has
\* returned, the .tmp file does not exist; a call that found nothing to write
\* returns true without touching the directory, so a .tmp file left by a
\* process that died inside save_state is still there.
C26_TempFileIsTransientAfterWrite ==
    /\ (pc = "idle" /\ resp.op = "save_state" /\ resp.save \in {"written", "failed"})
           => temp = Absent
    /\ (pc = "idle" /\ resp.op = "save_state" /\ resp.save = "noop" /\ temp # Absent)
           => (faults > 0 /\ restarts > 0)

\* save_state has failed after the temp file was written, and has removed it.
C26_Witness ==
    /\ pc = "idle" /\ resp.op = "save_state"
    /\ resp.save = "failed" /\ resp.step \in {"s_backup", "s_move"}
    /\ temp = Absent

\* a is an initial segment of b.
IsPrefix(a, b) == Len(a) <= Len(b) /\ \A i \in 1..Len(a) : a[i] = b[i]

\* Nothing recorded in old is missing from new, and the lists of new extend
\* those of old at the end.
Grows(old, new) ==
    /\ DOMAIN old.repositories \subseteq DOMAIN new.repositories
    /\ DOMAIN old.components \subseteq DOMAIN new.components
    /\ \A c \in DOMAIN old.components :
          IsPrefix(old.components[c].repositories, new.components[c].repositories)
    /\ \A r \in DOMAIN old.repositories :
          /\ IsPrefix(old.repositories[r].assigned_components,
                      new.repositories[r].assigned_components)
          /\ old.repositories[r].insights \subseteq new.repositories[r].insights
    /\ IsPrefix(old.dependency_records, new.dependency_records)

\* C27. Append-only enrichment: no plugin operation removes anything
\* recorded: repository names, component names, each component's repositories
\* list, each repository's assigned_components list and insight keys, and
\* dependency_records only grow, the lists at their end.
C27_AppendOnlyEnrichment ==
    [][(mutations' = mutations + 1) => Grows(state, state')]_vars

\* A second insight key has been stored for a repository that already had
\* one from the scan.
C27_Witness ==
    /\ resp.op = "store_repo_insights" /\ resp.ok
    /\ \E r \in DOMAIN state.repositories :
          state.repositories[r].insights = {AnalysisError, "k1"}

\* C22. Dependency index coherence: whenever the dependency index is
\* populated it is the index _build_dependency_cache builds from the current
\* dependency_records (an added record drops it, the next lookup rebuilds
\* it), and it is no part of the file written.
C22_DependencyIndexCoherence ==
    /\ depCache # None
           => depCache = build_dependency_cache(state.dependency_records)
    /\ Parses(primary)
           => DOMAIN primary.doc \cap {"_dependency_cache", "outgoing", "incoming"} = {}

\* A lookup has built the index from one record.
C22_Witness ==
    /\ resp.op = "get_repository_details" /\ resp.why = "dependencies"
    /\ depCache # None
    /\ Len(state.dependency_records) = 1
    /\ Len(depCache.outgoing[state.dependency_records[1].source_repo]) = 1

\* The scan of path i is the only one that hangs.
OnlyHung(i) ==
    /\ i \in DOMAIN outcome
    /\ outcome[i] = "hangs"
    /\ \A j \in DOMAIN outcome : outcome[j] = "hangs" => j = i

\* C25. A hung scan blocks one worker slot only: when the scan of one path
\* never returns and the scans of the other paths do, every other path's scan
\* is started and runs to its end; process_repositories neither returns nor
\* raises.
C25_HungScanBlocksOneWorker ==
    /\ \A i, j \in 1..MaxPaths :
          (OnlyHung(i) /\ j \in DOMAIN fut /\ j # i)
              ~> (j \in DOMAIN fut /\ fut[j] \in {"done", "collected"})
    /\ [](\A i \in 1..MaxPaths :
              OnlyHung(i) => spc \notin {"returned", "raised"})

\* One scan hangs in its worker while the result of the other has been
\* collected.
C25_Witness ==
    \E i, j \in DOMAIN fut :
        /\ OnlyHung(i)
        /\ fut[i] = "running"
        /\ fut[j] = "collected"
        /\ spc = "collecting"

\* C21. Lock coverage: every read and every write of the cached state and
\* of the dirty flag, and every disk operation of load and save, is made by
\* a thread that holds the store's lock.
C21_LockCoverage == access.held

\* The primary file holds the three collections of the cached state.
PrimaryReflects(f, st) ==
    Parses(f) /\ Content(Deserialize(f.doc)) = Content(st)

\* A mutation helper of thread t returns inside t's batch_update scope.
HelperInScope(t) ==
    /\ th[t].scope
    /\ th[t].pc = "body"
    /\ th[t].op \in MutationOps
    /\ th'[t].pc # "body"

\* Thread t leaves its batch_update scope.
LeavesScope(t) == th[t].scope /\ ~th'[t].scope

\* C28. Batched updates, as stated: a mutation helper called inside a
\* batch_update scope writes nothing to disk, and on leaving the scope the
\* dirty flag is set whenever it was set on entry or any mutation helper ran
\* inside the scope.
C28_BatchedUpdates ==
    [][\A t \in Threads :
          /\ HelperInScope(t) => UNCHANGED <<primary, backup, temp>>
          /\ LeavesScope(t)
                 => ((th[t].old_dirty \/ th[t].mutated) => dirty')]_vars

\* C28, amended. A mutation helper called inside a batch_update scope writes
\* nothing to disk; on leaving the scope the dirty flag is set whenever it
\* was set on entry, or a mutation helper ran inside the scope and no
\* save_state of the scope has written the file after it; and then either
\* the dirty flag is set, so that one save_state after the scope writes all
\* the upserts, or the primary file holds them already.
C28_BatchedUpdatesUnlessSaved ==
    [][\A t \in Threads :
          /\ HelperInScope(t) => UNCHANGED <<primary, backup, temp>>
          /\ LeavesScope(t)
                 => /\ (th[t].old_dirty \/ th[t].unsaved) => dirty'
                    /\ dirty' \/ PrimaryReflects(primary', state')]_vars

\* A scope entered with the flag clear has been left after a mutation helper
\* ran in it: the flag is set and the file does not hold the upsert yet.
C28_Witness ==
    /\ resp.op = "batch_update"
    /\ \E t \in Threads :
          /\ th[t].last = "batch_update"
          /\ th[t].mutated /\ th[t].unsaved /\ ~th[t].old_dirty
    /\ dirty
    /\ ~PrimaryReflects(primary, state)

\* Every call of every thread has returned.
AllReturned == \A t \in Threads : th[t].pc = "idle"

\* C29. No lost update between mutation and save: once all calls have
\* returned, either the dirty flag is set or the primary file holds every
\* mutation; a save that clears the dirty flag has written the state with
\* every mutation made so far; and while a thread is inside a batch_update
\* scope no other thread writes the temp file or the primary file.
C29_NoLostUpdate ==
    /\ [](AllReturned => (dirty \/ PrimaryReflects(primary, state)))
    /\ [][/\ (dirty /\ ~dirty') => PrimaryReflects(primary', state')
          /\ (temp' # temp \/ primary' # primary)
                 => \A t \in Threads : th[t].scope => access'.thread = t]_vars

\* One thread has added a repository and the other has saved afterwards:
\* the flag is clear and the file holds the repository.
C29_Witness ==
    /\ AllReturned
    /\ \E t, u \in Threads :
          /\ t # u
          /\ th[t].last = "update_repository"
          /\ th[u].last = "save_state"
    /\ resp.op = "save_state" /\ resp.save = "written"
    /\ ~dirty
    /\ "r1" \in DOMAIN Deserialize(primary.doc).repositories

\* Thread t is inside a call of a store operation.
InCall(t) == th[t].pc # "idle"

\* C30. Re-entrant locking is deadlock-free: every call of a store
\* operation returns, those a thread makes inside its own batch_update scope
\* (update_repository, add_component, assign_repo_to_component, load_state,
\* save_state) included; a thread that waits for the lock while another
\* thread is in its scope goes on once the scope is left; and inside a scope
\* the lock is held by the thread of the scope.
C30_ReentrantLockingIsDeadlockFree ==
    /\ \A t \in Threads : InCall(t) ~> ~InCall(t)
    /\ \A t \in Threads : th[t].scope ~> ~th[t].scope
    /\ [](\A t \in Threads : th[t].scope => lock.owner = t)

\* A thread inside its batch_update scope has taken the lock a second time
\* for save_state, while the other thread waits for the lock.
C30_Witness ==
    \E t, u \in Threads :
        /\ t # u
        /\ th[t].scope
        /\ th[t].op = "save_state" /\ th[t].pc = "s_move"
        /\ lock = [owner |-> t, count |-> 2]
        /\ th[u].pc = "acquire" /\ th[u].op \in LockedOps

====
